---------------------------- MODULE Spec2Model ----------------------------
(***************************************************************************)
(* Verification model of the stock-analyzer repository.                    *)
(*                                                                         *)
(*   src/Acciones_SPAIN_USA.py : validator, composite scorer, SQLite store  *)
(*                               and the refresh cycle of main()            *)
(*   src/stock_analyzer.py     : parquet/pickle cache controller            *)
(*                                                                         *)
(* Floats are fixed-point integers in units of 1/Scale.  A Python value is  *)
(* a record [k, v, s]: k is the kind ("num", "nan", "none", "str"), v the   *)
(* scaled number, s the string.  A key missing from a dict is a key that   *)
(* is not in the DOMAIN of the function that models the dict.              *)
(***************************************************************************)
EXTENDS Integers, Sequences, FiniteSets, TLC

VARIABLES
    \* ---- the SQLite store of one market (Acciones_SPAIN_USA.py) ----
    tablas_existen,       \* the four tables exist (crear_base_datos has run)
    empresas,             \* Catalog rows, primary key ticker
    datos_fundamentales,  \* Fundamentals rows, AUTOINCREMENT id
    seq_fund,             \* sqlite_sequence entry of datos_fundamentales
    historico_precios,    \* PriceBar rows, UNIQUE(ticker, fecha)
    alertas_validacion,   \* Alert log, in insertion order
    \* ---- the refresh cycle of main() ----
    pc,                   \* "idle", "running", "done", "aborted"
    idx,                  \* number of tickers the running loop has finished
    progress,             \* numerator last given to progress_bar.progress
    llamadas,             \* calls of obtener_datos_empresa made so far
    procesados,           \* tickers obtener_datos_empresa returned for, this cycle
    fallos,               \* tickers whose call took the except path, this cycle
    ultimo,               \* the last operation and what it returned
    ultimo_insertado,     \* ticker -> id of the row appended last for it (0: none)
    errores_bd,           \* store writes that have raised so far
    \* ---- one call of validar_y_corregir_datos ----
    v_in, v_out,
    \* ---- calls of calcular_score_mejorado ----
    s_in, s_out,
    \* ---- the cache of StockAnalyzer (stock_analyzer.py) ----
    now,                  \* wall clock, in hours
    metadata_file,        \* metadata.pkl: absent, or written with its last_update
    all_stocks_file,      \* all_stocks.parquet: absent, an empty frame, or rows
    c_out,                \* the last cache operation and what it did
    \* ---- "Actualizar TODOS los Mercados": one store per market ----
    m_bd,                 \* db_name -> the store file of that market
    m_pc,                 \* "idle", "abrir", "tickers", "done", "aborted"
    m_mercado,            \* index in MERCADOS of the market being refreshed
    m_idx,                \* tickers of that market finished so far
    m_contador,           \* contador, the numerator of the progress bar
    m_completados,        \* markets whose loop and purge have both finished
    m_ultimo,             \* the last store operation and what it returned
    \* ---- the schema of one store file: creation, migration, statistics ----
    e_bd,                 \* the file: its tables, the columns of empresas, the rows
    e_ultimo,             \* the last schema operation and what it returned
    \* ---- two refresh cycles of one market run at the same time ----
    ciclos,               \* cycle -> its position in the loop and in the call
    \* ---- StockAnalyzer.calculate_total_expected_return (stock_analyzer.py) ----
    x_in,                 \* the row of the frame given to the estimator
    x_out                 \* the columns the estimator added to the row

storeVars == <<tablas_existen, empresas, datos_fundamentales, seq_fund,
               historico_precios, alertas_validacion>>
cycleVars == <<pc, idx, progress, llamadas, procesados, fallos, ultimo,
               ultimo_insertado, errores_bd>>
valVars   == <<v_in, v_out>>
scoreVars == <<s_in, s_out>>
cacheVars == <<now, metadata_file, all_stocks_file, c_out>>
multiVars == <<m_bd, m_pc, m_mercado, m_idx, m_contador, m_completados, m_ultimo>>
esquemaVars == <<e_bd, e_ultimo>>
concVars == <<ciclos>>
estVars == <<x_in, x_out>>
otrosVars == <<esquemaVars, concVars, estVars>>
vars == <<storeVars, cycleVars, valVars, scoreVars, cacheVars, multiVars, otrosVars>>

---------------------------------------------------------------------------
(* Python values *)

\* Fixed-point unit: 1.0 is Scale, so 0.045 is 45 and 4.5 (percent) is 4500.
Scale == 1000

Num(n) == [k |-> "num", v |-> n, s |-> ""]
NaN    == [k |-> "nan", v |-> 0, s |-> ""]
None   == [k |-> "none", v |-> 0, s |-> ""]
Str(x) == [k |-> "str", v |-> 0, s |-> x]

\* int/float operands: <, >, <=, >=, min, max, *, / do not raise on them
IsFloat(x) == x.k \in {"num", "nan"}

\* Python comparisons of a float with a literal; every comparison with NaN is False
GT(x, n) == x.k = "num" /\ x.v > n
GE(x, n) == x.k = "num" /\ x.v >= n
LT(x, n) == x.k = "num" /\ x.v < n
LE(x, n) == x.k = "num" /\ x.v <= n

\* x == y on two floats; False when either is NaN
EQ(x, y) == x.k = "num" /\ y.k = "num" /\ x.v = y.v

\* dict.get(key, default)
DictGet(d, key, default) == IF key \in DOMAIN d THEN d[key] ELSE default

\* min(x, n) and max(x, n) with the float first: NaN as first argument is kept
PyMin(x, n) == IF x.k = "num" /\ n < x.v THEN Num(n) ELSE x
PyMax(x, n) == IF x.k = "num" /\ n > x.v THEN Num(n) ELSE x

\* x * p / q on a float (x * 100, x * 1.08, x * 1.15, ...)
Times(x, p, q) == IF x.k = "num" THEN Num((x.v * p) \div q) ELSE x

\* x + y on floats
Plus(x, y) == IF x.k = "num" /\ y.k = "num" THEN Num(x.v + y.v) ELSE NaN

\* str.lower() on the recommendation keys the model uses
Lower(str) ==
    CASE str = "STRONG_BUY"  -> "strong_buy"
      [] str = "Buy"         -> "buy"
      [] str = "HOLD"        -> "hold"
      [] str = "Strong_Sell" -> "strong_sell"
      [] str = "N/A"         -> "n/a"
      [] OTHER               -> str

---------------------------------------------------------------------------
(* calcular_score_mejorado: the composite scorer *)

\* sector_ajustes (the accented key of the source is written without accent)
sector_ajustes ==
    [Technology   |-> [tipo |-> "pe_tolerance", n |-> 5],
     Healthcare   |-> [tipo |-> "pe_tolerance", n |-> 3],
     Media        |-> [tipo |-> "pe_tolerance", n |-> 3],
     Utilities    |-> [tipo |-> "div_bonus", n |-> 2],
     Banca        |-> [tipo |-> "div_bonus", n |-> 2],
     Financial    |-> [tipo |-> "div_bonus", n |-> 2],
     Seguros      |-> [tipo |-> "div_bonus", n |-> 2],
     Energy       |-> [tipo |-> "vol_tolerance", n |-> 3],
     Industrial   |-> [tipo |-> "vol_tolerance", n |-> 2],
     Construccion |-> [tipo |-> "vol_tolerance", n |-> 2],
     Automotive   |-> [tipo |-> "vol_tolerance", n |-> 2]]

PuntosUpside(upside) ==
    IF GE(upside, 25 * Scale) THEN 20
    ELSE IF GE(upside, 20 * Scale) THEN 18
    ELSE IF GE(upside, 15 * Scale) THEN 15
    ELSE IF GE(upside, 10 * Scale) THEN 12
    ELSE IF GE(upside, 5 * Scale) THEN 8
    ELSE IF GE(upside, 0) THEN 4
    ELSE IF GE(upside, -5 * Scale) THEN 2
    ELSE 0

PuntosDividendo(div_yield) ==
    IF GE(div_yield, 7 * Scale) THEN 15
    ELSE IF GE(div_yield, 5 * Scale) THEN 13
    ELSE IF GE(div_yield, 4 * Scale) THEN 11
    ELSE IF GE(div_yield, 3 * Scale) THEN 8
    ELSE IF GE(div_yield, 2 * Scale) THEN 5
    ELSE IF GE(div_yield, 1 * Scale) THEN 3
    ELSE 0

PuntosPE(pe) ==
    IF LE(pe, 0) THEN 0
    ELSE IF LT(pe, 10 * Scale) THEN 15
    ELSE IF LT(pe, 12 * Scale) THEN 13
    ELSE IF LT(pe, 15 * Scale) THEN 11
    ELSE IF LT(pe, 18 * Scale) THEN 8
    ELSE IF LT(pe, 22 * Scale) THEN 5
    ELSE IF LT(pe, 30 * Scale) THEN 2
    ELSE 0

PuntosPB(pb) ==
    IF GT(pb, 0) /\ LT(pb, 1 * Scale) THEN 5
    ELSE IF GE(pb, 1 * Scale) /\ LT(pb, 2 * Scale) THEN 4
    ELSE IF GE(pb, 2 * Scale) /\ LT(pb, 3 * Scale) THEN 3
    ELSE IF GE(pb, 3 * Scale) /\ LT(pb, 5 * Scale) THEN 2
    ELSE 0

PuntosROE(roe) ==
    IF GE(roe, 25 * Scale) THEN 10
    ELSE IF GE(roe, 20 * Scale) THEN 9
    ELSE IF GE(roe, 15 * Scale) THEN 7
    ELSE IF GE(roe, 10 * Scale) THEN 5
    ELSE IF GE(roe, 5 * Scale) THEN 3
    ELSE IF GE(roe, 0) THEN 1
    ELSE 0

PuntosGrowth(growth) ==
    IF GE(growth, 20 * Scale) THEN 5
    ELSE IF GE(growth, 15 * Scale) THEN 4
    ELSE IF GE(growth, 10 * Scale) THEN 3
    ELSE IF GE(growth, 5 * Scale) THEN 2
    ELSE IF GE(growth, 0) THEN 1
    ELSE 0

PuntosROA(roa) ==
    IF GE(roa, 15 * Scale) THEN 5
    ELSE IF GE(roa, 10 * Scale) THEN 4
    ELSE IF GE(roa, 7 * Scale) THEN 3
    ELSE IF GE(roa, 5 * Scale) THEN 2
    ELSE IF GE(roa, 2 * Scale) THEN 1
    ELSE 0

\* Num_Analysts is a count, not scaled
PuntosAnalistas(num_analysts) ==
    IF GE(num_analysts, 20) THEN 10
    ELSE IF GE(num_analysts, 15) THEN 9
    ELSE IF GE(num_analysts, 10) THEN 7
    ELSE IF GE(num_analysts, 7) THEN 5
    ELSE IF GE(num_analysts, 5) THEN 3
    ELSE IF GE(num_analysts, 3) THEN 1
    ELSE 0

PuntosRecomendacion(recommendation) ==
    CASE recommendation = "strong_buy"  -> 5
      [] recommendation = "buy"         -> 4
      [] recommendation = "hold"        -> 2
      [] recommendation = "sell"        -> 0
      [] recommendation = "strong_sell" -> -5
      [] OTHER                          -> 0

PenalizacionRiesgo(volatilidad, beta, market_cap) ==
      (IF GT(volatilidad, 60 * Scale) THEN -10
       ELSE IF GT(volatilidad, 45 * Scale) THEN -6
       ELSE IF GT(volatilidad, 35 * Scale) THEN -3
       ELSE 0)
    + (IF GT(beta, 2 * Scale) THEN -5
       ELSE IF LT(beta, (3 * Scale) \div 10) THEN -3
       ELSE 0)
    + (IF LT(market_cap, (5 * Scale) \div 10) THEN -8
       ELSE IF LT(market_cap, 1 * Scale) THEN -5
       ELSE IF LT(market_cap, 2 * Scale) THEN -2
       ELSE 0)

\* no bonus for any combination
BonusNinguno(upside, div_yield, pe, roe, roa, growth) == 0
BonusExcelencia(upside, div_yield, pe, roe, roa, growth) ==
      (IF GT(upside, 15 * Scale) /\ LT(pe, 15 * Scale) /\ GT(roe, 15 * Scale)
       THEN 5 ELSE 0)
    + (IF GT(div_yield, 4 * Scale) /\ GT(growth, 5 * Scale) THEN 3 ELSE 0)
    + (IF GT(roe, 20 * Scale) /\ GT(roa, 10 * Scale) /\ LT(pe, 20 * Scale)
       THEN 2 ELSE 0)

AjusteSector(sector, pe, div_yield, volatilidad) ==
    IF sector \in DOMAIN sector_ajustes
    THEN LET ajustes == sector_ajustes[sector] IN
           (IF ajustes.tipo = "pe_tolerance" /\ LT(pe, 30 * Scale)
            THEN ajustes.n ELSE 0)
         + (IF ajustes.tipo = "div_bonus" /\ GT(div_yield, 3 * Scale)
            THEN ajustes.n ELSE 0)
         + (IF ajustes.tipo = "vol_tolerance" /\ GT(volatilidad, 35 * Scale)
            THEN ajustes.n ELSE 0)
    ELSE 0

\* score = max(0, min(100, score))
ClampScoreSinLimite(score) == score
ClampScore(score) ==
    LET lo == IF score < 100 THEN score ELSE 100
    IN  IF lo > 0 THEN lo ELSE 0

\* The sum of the point buckets before the final clamp.
ScoreBruto(datos, sector) ==
    LET upside    == DictGet(datos, "Upside_%", Num(0))
        div_yield == DictGet(datos, "Dividend_Yield", Num(0))
        pe        == DictGet(datos, "PE_Ratio", Num(15 * Scale))
        pb        == DictGet(datos, "Price_Book", Num(2 * Scale))
        roe       == DictGet(datos, "ROE", Num(10 * Scale))
        growth    == DictGet(datos, "Revenue_Growth", Num(0))
        roa       == DictGet(datos, "ROA", Num(5 * Scale))
        analysts  == DictGet(datos, "Num_Analysts", Num(0))
        rec       == Lower(DictGet(datos, "Recommendation", Str("N/A")).s)
        vol       == DictGet(datos, "Volatilidad", Num(20 * Scale))
        beta      == DictGet(datos, "Beta", Num(1 * Scale))
        mcap      == DictGet(datos, "Market_Cap", Num(5 * Scale))
    IN    PuntosUpside(upside) + PuntosDividendo(div_yield)
        + PuntosPE(pe) + PuntosPB(pb)
        + PuntosROE(roe) + PuntosGrowth(growth) + PuntosROA(roa)
        + PuntosAnalistas(analysts) + PuntosRecomendacion(rec)
        + PenalizacionRiesgo(vol, beta, mcap)
        + BonusExcelencia(upside, div_yield, pe, roe, roa, growth)
        + AjusteSector(sector, pe, div_yield, vol)

calcular_score_mejorado(datos, sector) == ClampScore(ScoreBruto(datos, sector))

\* The scorer raises (TypeError / AttributeError) when a field it compares is
\* not a number or the recommendation is not a string.
NumericKeys ==
    {"Upside_%", "Dividend_Yield", "PE_Ratio", "Price_Book", "ROE",
     "Revenue_Growth", "ROA", "Num_Analysts", "Volatilidad", "Beta", "Market_Cap"}

score_raises(datos) ==
    \/ \E key \in NumericKeys \cap DOMAIN datos : ~IsFloat(datos[key])
    \/ "Recommendation" \in DOMAIN datos /\ datos["Recommendation"].k # "str"

\* clasificar_score(score): the label of the band (without its emoji)
ClasificarSinSuelo(score) ==
    IF score >= 85 THEN "EXCEPCIONAL" ELSE "NEUTRAL"
clasificar_score(score) ==
    IF score >= 85 THEN "EXCEPCIONAL"
    ELSE IF score >= 75 THEN "MUY ATRACTIVA"
    ELSE IF score >= 65 THEN "ATRACTIVA"
    ELSE IF score >= 55 THEN "NEUTRAL"
    ELSE IF score >= 45 THEN "POCO ATRACTIVA"
    ELSE IF score >= 35 THEN "NO RECOMENDADA"
    ELSE "EVITAR"

---------------------------------------------------------------------------
(* validar_y_corregir_datos: the validator *)

\* The provider's price history is hist = [bars, vol]: bars is the sequence of
\* daily rows [fecha, close, volume] in date order, vol the annualized
\* standard deviation of the daily returns of that series, in percent (the
\* value of returns.std() * sqrt(252) * 100, which the provider's data fixes).
HistEmpty(hist) == Len(hist.bars) = 0

\* returns.std() is NaN when fewer than two returns are left after dropna()
Volatilidad(hist) ==
    IF HistEmpty(hist) THEN Num(0)
    ELSE IF Len(hist.bars) <= 2 THEN NaN
    ELSE hist.vol

PrecioActual(info, hist) ==
    IF ~HistEmpty(hist) THEN hist.bars[Len(hist.bars)].close
    ELSE LET precio == DictGet(info, "currentPrice", Num(0))
         IN  IF precio = Num(0)
             THEN DictGet(info, "regularMarketPrice", Num(0))
             ELSE precio

\* the value left as the provider gave it
NormalizaSinEscalar(x) == x
\* "if 0 < x < 1: x = x * 100", the fraction-to-percent rule
NormalizaPorcentaje(x) ==
    IF GT(x, 0) /\ LT(x, 1 * Scale) THEN Times(x, 100, 1) ELSE x

\* no computed upside is taken as suspicious
UpsideNuncaSospechoso(target_mean, precio) == FALSE
\* abs((target_mean - precio) / precio * 100) > 50, decided without rounding
UpsideSospechoso(target_mean, precio) ==
    LET d == target_mean.v - precio.v
        a == IF d < 0 THEN -d ELSE d
    IN  a * 100 > 50 * precio.v

UpsideCalculado(target_mean, precio) ==
    Num(((target_mean.v - precio.v) * 100 * Scale) \div precio.v)

\* The validator raises TypeError where it compares or computes with a field
\* that is present but is not a number (None, a string).
ValidarRaises(info, hist) ==
    \/ ~IsFloat(DictGet(info, "dividendYield", Num(0)))
    \/ ~IsFloat(DictGet(info, "targetMeanPrice", Num(0)))
    \/ ~IsFloat(PrecioActual(info, hist))
    \/ ~IsFloat(DictGet(info, "targetHighPrice", Num(0)))
    \/ ~IsFloat(DictGet(info, "targetLowPrice", Num(0)))
    \/ ~IsFloat(DictGet(info, "trailingPE", Num(0)))
    \/ ~IsFloat(DictGet(info, "forwardPE", Num(0)))
    \/ ~IsFloat(DictGet(info, "priceToBook", Num(0)))
    \/ ~IsFloat(DictGet(info, "marketCap", Num(0)))
    \/ ~IsFloat(DictGet(info, "returnOnEquity", Num(0)))
    \/ ~IsFloat(DictGet(info, "returnOnAssets", Num(0)))
    \/ ~IsFloat(DictGet(info, "revenueGrowth", Num(0)))

\* marketCap is given in millions of currency units and Market_Cap is in
\* billions: marketCap / 1e9.
MarketCapBillions(x) == Times(x, Scale, 1000)

\* The record and the alerts the validator builds when nothing raises;
\* Score is added by validar_y_corregir_datos below.
Corregir(info, hist) ==
    LET precio_actual == PrecioActual(info, hist)
        div_norm == NormalizaPorcentaje(DictGet(info, "dividendYield", Num(0)))
        div_alto == GT(div_norm, 15 * Scale)
        div_neg  == ~div_alto /\ LT(div_norm, 0)
        div_yield == IF div_alto \/ div_neg THEN Num(0) ELSE div_norm
        a_div == IF div_alto
                 THEN <<"Dividend Yield muy alto", "Ajustado a 0% (verificar manualmente)">>
                 ELSE IF div_neg
                      THEN <<"Dividend Yield negativo", "Ajustado a 0%">>
                      ELSE <<>>
        tm_raw == DictGet(info, "targetMeanPrice", Num(0))
        target_high == DictGet(info, "targetHighPrice", Num(0))
        target_low  == DictGet(info, "targetLowPrice", Num(0))
        ambos == GT(tm_raw, 0) /\ GT(precio_actual, 0)
        sospechoso == ambos /\ UpsideSospechoso(tm_raw, precio_actual)
        upside == IF ambos
                  THEN IF sospechoso THEN Num(8 * Scale)
                       ELSE UpsideCalculado(tm_raw, precio_actual)
                  ELSE Num(5 * Scale)
        target_mean == IF ambos
                       THEN IF sospechoso THEN Times(precio_actual, 108, 100)
                            ELSE tm_raw
                       ELSE IF GT(precio_actual, 0)
                            THEN Times(precio_actual, 105, 100)
                            ELSE Num(0)
        a_up == IF sospechoso THEN <<"Upside sospechoso", "Ajustado a +8%">> ELSE <<>>
        pe_raw == DictGet(info, "trailingPE", Num(0))
        pe_malo == GT(pe_raw, 100 * Scale) \/ LT(pe_raw, 0)
        pe_ratio == IF pe_malo THEN Num(15 * Scale) ELSE pe_raw
        a_pe == IF pe_malo THEN <<"PE Ratio sospechoso">> ELSE <<>>
        roe == NormalizaPorcentaje(DictGet(info, "returnOnEquity", Num(0)))
        roa == NormalizaPorcentaje(DictGet(info, "returnOnAssets", Num(0)))
        revenue_growth == NormalizaPorcentaje(DictGet(info, "revenueGrowth", Num(0)))
    IN  [datos |->
               ("Precio_Actual" :> precio_actual)
            @@ ("Dividend_Yield" :> div_yield)
            @@ ("Target_Mean" :> target_mean)
            @@ ("Target_High" :> IF GT(target_high, 0) THEN target_high
                                 ELSE Times(target_mean, 115, 100))
            @@ ("Target_Low" :> IF GT(target_low, 0) THEN target_low
                                ELSE Times(target_mean, 85, 100))
            @@ ("Upside_%" :> upside)
            @@ ("PE_Ratio" :> pe_ratio)
            @@ ("PE_Forward" :> PyMin(DictGet(info, "forwardPE", Num(0)), 100 * Scale))
            @@ ("Price_Book" :> PyMin(DictGet(info, "priceToBook", Num(0)), 20 * Scale))
            @@ ("Market_Cap" :> MarketCapBillions(DictGet(info, "marketCap", Num(0))))
            @@ ("ROE" :> PyMin(PyMax(roe, -50 * Scale), 100 * Scale))
            @@ ("ROA" :> PyMin(PyMax(roa, -20 * Scale), 50 * Scale))
            @@ ("Num_Analysts" :> DictGet(info, "numberOfAnalystOpinions", Num(0)))
            @@ ("Recommendation" :> DictGet(info, "recommendationKey", Str("N/A")))
            @@ ("Revenue_Growth" :> PyMax(PyMin(revenue_growth, 100 * Scale), -50 * Scale))
            @@ ("Beta" :> DictGet(info, "beta", Num(1 * Scale)))
            @@ ("Total_Return_%" :> Plus(upside, div_yield))
            @@ ("Volatilidad" :> Volatilidad(hist)),
         alertas |-> a_div \o a_up \o a_pe]

\* What validar_y_corregir_datos does up to its insertar_alerta loop: either
\* it raises, or it has the record (with its Score) and the alert list.
validar_y_corregir_datos(info, hist, sector) ==
    LET Puntuar(c) ==
            IF score_raises(c.datos)
            THEN [raised |-> TRUE, datos |-> <<>>, alertas |-> <<>>]
            ELSE [raised |-> FALSE,
                  datos |-> c.datos @@ ("Score" :>
                                Num(calcular_score_mejorado(c.datos, sector))),
                  alertas |-> c.alertas]
    IN  IF ValidarRaises(info, hist)
        THEN [raised |-> TRUE, datos |-> <<>>, alertas |-> <<>>]
        ELSE CHOOSE r \in {Puntuar(c) : c \in {Corregir(info, hist)}} : TRUE

---------------------------------------------------------------------------
(* The SQLite store of one market *)

SetMax(S) == CHOOSE x \in S : \A y \in S : y <= x

TickersDe(tabla) == {r.ticker : r \in tabla}

\* INSERT OR REPLACE INTO empresas: the row with the same primary key goes
insertar_empresa(tabla, ticker, nombre, sector, mercado) ==
    {e \in tabla : e.ticker # ticker}
        \cup {[ticker |-> ticker, empresa |-> nombre, sector |-> sector,
               mercado |-> mercado]}

\* INTEGER PRIMARY KEY AUTOINCREMENT: one more than the largest id the table
\* has ever held, which sqlite_sequence remembers across deletes
SiguienteIdReusado(tabla, seq) == Cardinality(tabla) + 1
SiguienteId(tabla, seq) ==
    SetMax({seq} \cup {r.id : r \in tabla}) + 1

\* The column values of one INSERT INTO datos_fundamentales
FilaFundamentales(id, ticker, datos) ==
    [id |-> id,
     ticker |-> ticker,
     precio_actual |-> datos["Precio_Actual"],
     target_mean |-> datos["Target_Mean"],
     target_high |-> DictGet(datos, "Target_High", Num(0)),
     target_low |-> DictGet(datos, "Target_Low", Num(0)),
     upside_pct |-> datos["Upside_%"],
     dividend_yield |-> datos["Dividend_Yield"],
     total_return_pct |-> datos["Total_Return_%"],
     pe_ratio |-> datos["PE_Ratio"],
     pe_forward |-> DictGet(datos, "PE_Forward", Num(0)),
     price_book |-> DictGet(datos, "Price_Book", Num(0)),
     roe |-> datos["ROE"],
     roa |-> DictGet(datos, "ROA", Num(0)),
     revenue_growth |-> DictGet(datos, "Revenue_Growth", Num(0)),
     market_cap |-> DictGet(datos, "Market_Cap", Num(0)),
     beta |-> DictGet(datos, "Beta", Num(1 * Scale)),
     volatilidad |-> DictGet(datos, "Volatilidad", Num(0)),
     num_analysts |-> DictGet(datos, "Num_Analysts", Num(0)),
     recommendation |-> DictGet(datos, "Recommendation", Str("N/A")),
     score |-> datos["Score"]]

insertar_datos_fundamentales(tabla, seq, ticker, datos) ==
    LET id == SiguienteId(tabla, seq)
    IN  [tabla |-> tabla \cup {FilaFundamentales(id, ticker, datos)},
         seq |-> id]

\* float(row['Close']) and int(row['Volume']) raise on a malformed bar, which
\* the bare "except: continue" skips
BarraValida(bar) == IsFloat(bar.close) /\ bar.volume.k = "num"

\* a plain INSERT on a table without the UNIQUE(ticker, fecha) constraint
UpsertSinReemplazar(tabla, ticker, bar) ==
    tabla \cup {[ticker |-> ticker, fecha |-> bar.fecha, close |-> bar.close,
                 volume |-> bar.volume]}

\* INSERT OR REPLACE INTO historico_precios, UNIQUE(ticker, fecha)
UpsertBarra(tabla, ticker, bar) ==
    {r \in tabla : ~(r.ticker = ticker /\ r.fecha = bar.fecha)}
        \cup {[ticker |-> ticker, fecha |-> bar.fecha, close |-> bar.close,
               volume |-> bar.volume]}

RECURSIVE UpsertBarras(_, _, _)
UpsertBarras(tabla, ticker, bars) ==
    IF bars = <<>> THEN tabla
    ELSE UpsertBarras(IF BarraValida(Head(bars))
                      THEN UpsertBarra(tabla, ticker, Head(bars))
                      ELSE tabla,
                      ticker, Tail(bars))

insertar_historico_precios(tabla, ticker, hist) ==
    IF HistEmpty(hist) THEN tabla ELSE UpsertBarras(tabla, ticker, hist.bars)

insertar_alerta(log, ticker, mensaje) ==
    Append(log, [ticker |-> ticker, mensaje |-> mensaje])

\* the insertar_alerta loop that ends validar_y_corregir_datos, over the
\* first n alerts
RECURSIVE InsertarAlertas(_, _, _, _)
InsertarAlertas(log, ticker, alertas, n) ==
    IF n = 0 THEN log
    ELSE insertar_alerta(InsertarAlertas(log, ticker, alertas, n - 1),
                         ticker, alertas[n])

\* SELECT MAX(id) FROM datos_fundamentales GROUP BY ticker
\* SELECT MIN(id) ... GROUP BY ticker: the oldest row of every ticker
MinIds(tabla) ==
    {CHOOSE i \in {r.id : r \in {x \in tabla : x.ticker = t}} :
        \A j \in {r.id : r \in {x \in tabla : x.ticker = t}} : i <= j :
     t \in TickersDe(tabla)}
MaxIdsTodos(tabla) ==
    IF tabla = {} THEN {} ELSE {SetMax({r.id : r \in tabla})}
MaxIds(tabla) ==
    {SetMax({r.id : r \in {x \in tabla : x.ticker = t}}) : t \in TickersDe(tabla)}

\* DELETE FROM datos_fundamentales WHERE id NOT IN (MaxIds); cursor.rowcount
LimpiarTodo(tabla) == [tabla |-> {}, filas_eliminadas |-> Cardinality(tabla)]
LimpiarSinBorrar(tabla) == [tabla |-> tabla, filas_eliminadas |-> 0]
limpiar_datos_antiguos(tabla) ==
    LET borradas == {r \in tabla : r.id \notin MaxIds(tabla)}
    IN  [tabla |-> tabla \ borradas, filas_eliminadas |-> Cardinality(borradas)]

\* A row of "empresas e LEFT JOIN datos_fundamentales df ON e.ticker = df.ticker":
\* df is <<>> (all NULL) for a ticker that has no fundamentals row
LeftJoin(emp, fund) ==
    UNION {{[e |-> e, df |-> <<f>>] : f \in {g \in fund : g.ticker = e.ticker}}
              : e \in emp}
        \cup {[e |-> e, df |-> <<>>] : e \in {x \in emp : x.ticker \notin TickersDe(fund)}}

\* WHERE df.id IN (SELECT MAX(id) ... GROUP BY ticker): NULL IN (...) is not true
WhereIdEsMax(fila, fund) ==
    fila.df # <<>> /\ fila.df[1].id \in MaxIds(fund)

\* The rows of the frame cargar_datos_desde_bd returns (an empty frame when
\* the empresas table does not exist); the ORDER BY is not modelled.
cargar_datos_desde_bd(existen, emp, fund) ==
    IF ~existen THEN {}
    ELSE {fila \in LeftJoin(emp, fund) : WhereIdEsMax(fila, fund)}

---------------------------------------------------------------------------
(* obtener_datos_empresa and the refresh cycle of main() for one market *)

\* The market of the cycle: the first entries of IBEX35_SYMBOLS, in dict order
Mercado == "IBEX 35"
Symbols == <<"ITX.MC", "IBE.MC">>
Nombres == [t \in {"ITX.MC", "IBE.MC"} |->
               IF t = "ITX.MC" THEN "Inditex" ELSE "Iberdrola"]
SECTORES_IBEX == ("ITX.MC" :> "Retail") @@ ("IBE.MC" :> "Utilities")
Total == Len(Symbols)

\* What yfinance hands back for one ticker: the call fails, or it returns the
\* info bag and the one-year history.
Bar(f, c, vol) == [fecha |-> f, close |-> Num(c), volume |-> vol]
HistVacio == [bars |-> <<>>, vol |-> Num(0)]
HistA == [bars |-> <<Bar(1, 9800, Num(500)), Bar(2, 9900, Num(600)),
                     Bar(3, 10000, Num(700))>>,
          vol |-> Num(18 * Scale)]
HistB == [bars |-> <<Bar(2, 9950, Num(650)), Bar(3, 10100, NaN),
                     Bar(4, 10200, Num(800))>>,
          vol |-> Num(40 * Scale)]

InfoSano ==
       ("dividendYield" :> Num(45)) @@ ("targetMeanPrice" :> Num(11000))
    @@ ("trailingPE" :> Num(12000)) @@ ("forwardPE" :> Num(11000))
    @@ ("priceToBook" :> Num(1500)) @@ ("marketCap" :> Num(15000))
    @@ ("returnOnEquity" :> Num(220)) @@ ("returnOnAssets" :> Num(110))
    @@ ("numberOfAnalystOpinions" :> Num(18)) @@ ("recommendationKey" :> Str("buy"))
    @@ ("revenueGrowth" :> Num(60)) @@ ("beta" :> Num(1100))
\* an implausible trailing P/E of 150, which the validator resets with one alert
InfoAnomalo == ("trailingPE" :> Num(150000)) @@ InfoSano
\* a field that is present with the value None
InfoNulo == ("dividendYield" :> None) @@ InfoSano

RespuestasProveedor ==
    {[falla |-> TRUE, info |-> <<>>, hist |-> HistVacio],
     [falla |-> FALSE, info |-> InfoSano, hist |-> HistA],
     [falla |-> FALSE, info |-> InfoAnomalo, hist |-> HistB],
     [falla |-> FALSE, info |-> InfoNulo, hist |-> HistA]}

\* The store write of the call that raises sqlite3.OperationalError, if any
FallosBd == {"ninguno", "alerta", "empresa", "fundamentales", "historico"}

\* "except Exception as e" of obtener_datos_empresa catches every exception
\* the body can raise
CaughtSoloProveedor(exc) == exc = "ProviderError"
Caught(exc) == exc \in {"ProviderError", "TypeError", "OperationalError"}

\* The dict the except path returns
Placeholder(ticker, nombre, mercado, sectores_dict) ==
       ("Ticker" :> Str(ticker)) @@ ("Empresa" :> Str(nombre))
    @@ ("Sector" :> Str(DictGet(sectores_dict, ticker, "Otros")))
    @@ ("Mercado" :> Str(mercado))
    @@ ("Precio_Actual" :> Num(0)) @@ ("Target_Mean" :> Num(0))
    @@ ("Upside_%" :> Num(0)) @@ ("Dividend_Yield" :> Num(0))
    @@ ("Total_Return_%" :> Num(0)) @@ ("PE_Ratio" :> Num(15 * Scale))
    @@ ("ROE" :> Num(10 * Scale)) @@ ("Market_Cap" :> Num(0))
    @@ ("Num_Analysts" :> Num(0)) @@ ("Recommendation" :> Str("N/A"))
    @@ ("Score" :> Num(30)) @@ ("Volatilidad" :> Num(20 * Scale))
    @@ ("Beta" :> Num(1 * Scale))

\* One call.  st is the store before it, resp the provider's answer, bd the
\* store write that fails (if it is reached), k the number of alerts that
\* were committed before a failing insertar_alerta.  The result is the store
\* after the call, the exception raised inside the try ("" for none),
\* whether it leaves the function, and the dict and alert list returned.
\* TrasValidar is the body of the try from the validator's return on, val
\* being what validar_y_corregir_datos did.
TrasValidar(st, ticker, nombre, mercado, sectores_dict, resp, bd, k, val) ==
    LET sector == DictGet(sectores_dict, ticker, "Otros")
        n == Len(val.alertas)
        falla_alerta == bd = "alerta" /\ n > 0
        escritas == IF falla_alerta THEN (IF k < n THEN k ELSE n - 1) ELSE n
        exc == IF resp.falla THEN "ProviderError"
               ELSE IF val.raised THEN "TypeError"
               ELSE IF \/ falla_alerta
                       \/ bd \in {"empresa", "fundamentales"}
                       \/ bd = "historico" /\ ~HistEmpty(resp.hist)
                    THEN "OperationalError"
                    ELSE ""
        \* how far the try block got: 0 validation, 1 alerts, 2 empresa,
        \* 3 fundamentales, 4 historico
        etapa == IF resp.falla \/ val.raised THEN 0
                 ELSE IF falla_alerta \/ bd = "empresa" THEN 1
                 ELSE IF bd = "fundamentales" THEN 2
                 ELSE IF bd = "historico" /\ ~HistEmpty(resp.hist) THEN 3
                 ELSE 4
        datos == val.datos
                 @@ ("Ticker" :> Str(ticker)) @@ ("Empresa" :> Str(nombre))
                 @@ ("Sector" :> Str(sector)) @@ ("Mercado" :> Str(mercado))
        ins == insertar_datos_fundamentales(st.datos_fundamentales, st.seq_fund,
                                            ticker, datos)
    IN  [alertas_validacion |->
             IF etapa >= 1
             THEN InsertarAlertas(st.alertas_validacion, ticker, val.alertas, escritas)
             ELSE st.alertas_validacion,
         empresas |->
             IF etapa >= 2
             THEN insertar_empresa(st.empresas, ticker, nombre, sector, mercado)
             ELSE st.empresas,
         datos_fundamentales |->
             IF etapa >= 3 THEN ins.tabla ELSE st.datos_fundamentales,
         seq_fund |-> IF etapa >= 3 THEN ins.seq ELSE st.seq_fund,
         historico_precios |->
             IF etapa >= 4
             THEN insertar_historico_precios(st.historico_precios, ticker, resp.hist)
             ELSE st.historico_precios,
         excepcion |-> exc,
         propaga |-> exc # "" /\ ~Caught(exc),
         ret |-> IF exc = "" THEN datos
                 ELSE Placeholder(ticker, nombre, mercado, sectores_dict),
         alertas |-> IF exc = "" THEN val.alertas
                     ELSE <<"Error obteniendo datos">>]

\* a call whose except path also stores the placeholder record
ObtenerGuardaPlaceholder(st, ticker, nombre, mercado, sectores_dict, resp, bd, k) ==
    IF resp.falla
    THEN [TrasValidar(st, ticker, nombre, mercado, sectores_dict, resp, bd, k,
                      [raised |-> TRUE, datos |-> <<>>, alertas |-> <<>>])
            EXCEPT !.datos_fundamentales =
                       insertar_datos_fundamentales(
                           st.datos_fundamentales, st.seq_fund, ticker,
                           Placeholder(ticker, nombre, mercado, sectores_dict)).tabla]
    ELSE TrasValidar(st, ticker, nombre, mercado, sectores_dict, resp, bd, k,
                     validar_y_corregir_datos(resp.info, resp.hist,
                                              DictGet(sectores_dict, ticker, "Otros")))
obtener_datos_empresa(st, ticker, nombre, mercado, sectores_dict, resp, bd, k) ==
    CHOOSE r \in
        {TrasValidar(st, ticker, nombre, mercado, sectores_dict, resp, bd, k, val) :
            val \in {IF resp.falla
                     THEN [raised |-> TRUE, datos |-> <<>>, alertas |-> <<>>]
                     ELSE validar_y_corregir_datos(
                              resp.info, resp.hist,
                              DictGet(sectores_dict, ticker, "Otros"))}} : TRUE

Store ==
    [empresas |-> empresas, datos_fundamentales |-> datos_fundamentales,
     seq_fund |-> seq_fund, historico_precios |-> historico_precios,
     alertas_validacion |-> alertas_validacion]

\* Number of obtener_datos_empresa calls the model follows (three cycles)
MaxLlamadas == 6
\* Number of store writes that raise in one run of the model
MaxErroresBd == 1

SinOperacion ==
    [op |-> "", ticker |-> "", excepcion |-> "", filas |-> 0, ret |-> <<>>,
     alertas |-> <<>>, hist |-> HistVacio]

StoreInit ==
    /\ tablas_existen = FALSE
    /\ empresas = {}
    /\ datos_fundamentales = {}
    /\ seq_fund = 0
    /\ historico_precios = {}
    /\ alertas_validacion = <<>>

CycleInit ==
    /\ pc = "idle"
    /\ idx = 0
    /\ progress = 0
    /\ llamadas = 0
    /\ procesados = <<>>
    /\ fallos = {}
    /\ ultimo = SinOperacion
    /\ ultimo_insertado = [t \in {Symbols[i] : i \in 1..Total} |-> 0]
    /\ errores_bd = 0

ValInit0 == v_in = <<>> /\ v_out = <<>>
ScoreInit0 == s_in = <<>> /\ s_out = <<>>
SinOperacionCache ==
    [op |-> "", force |-> FALSE, status |-> "", fetched |-> FALSE, saved |-> FALSE]

CacheInit0 ==
    /\ now = 0
    /\ metadata_file = [estado |-> "absent", last_update |-> 0]
    /\ all_stocks_file = "absent"
    /\ c_out = SinOperacionCache

\* The "Crear BD" button: CREATE TABLE IF NOT EXISTS, four times
CrearBaseDatos ==
    /\ pc \in {"idle", "done"}
    /\ tablas_existen' = TRUE
    /\ ultimo' = [SinOperacion EXCEPT !.op = "crear"]
    /\ UNCHANGED <<empresas, datos_fundamentales, seq_fund, historico_precios,
                   alertas_validacion>>
    /\ UNCHANGED <<pc, idx, progress, llamadas, procesados, fallos, ultimo_insertado,
                   errores_bd>>
    /\ UNCHANGED <<valVars, scoreVars, cacheVars, multiVars, otrosVars>>

\* The "Actualizar" button with db_existe: progress_bar = st.progress(0)
IniciarCiclo ==
    /\ pc \in {"idle", "done"}
    /\ tablas_existen
    /\ pc' = "running"
    /\ idx' = 0
    /\ progress' = 0
    /\ procesados' = <<>>
    /\ fallos' = {}
    /\ ultimo' = [SinOperacion EXCEPT !.op = "iniciar"]
    /\ UNCHANGED <<storeVars, llamadas, ultimo_insertado, errores_bd, valVars,
                   scoreVars, cacheVars,
                   multiVars, otrosVars>>

\* One iteration of "for idx, (ticker, nombre) in enumerate(symbols_mercado.items())"
ProcesarTicker ==
    /\ pc = "running"
    /\ idx < Total
    /\ llamadas < MaxLlamadas
    /\ llamadas' = llamadas + 1
    /\ \E resp \in RespuestasProveedor :
       \E bd \in (IF resp.falla THEN {"ninguno"} ELSE FallosBd) :
       \E k \in (IF bd = "alerta" THEN 0..1 ELSE {0}) :
         \E ticker \in {Symbols[idx + 1]} :
         \E r \in {obtener_datos_empresa(Store, ticker, Nombres[ticker], Mercado,
                                         SECTORES_IBEX, resp, bd, k)} :
             /\ r.excepcion = "OperationalError" => errores_bd < MaxErroresBd
             /\ errores_bd' = IF r.excepcion = "OperationalError"
                              THEN errores_bd + 1 ELSE errores_bd
             /\ empresas' = r.empresas
             /\ datos_fundamentales' = r.datos_fundamentales
             /\ seq_fund' = r.seq_fund
             /\ historico_precios' = r.historico_precios
             /\ alertas_validacion' = r.alertas_validacion
             /\ ultimo_insertado' =
                    IF r.seq_fund # seq_fund
                    THEN [ultimo_insertado EXCEPT ![ticker] = r.seq_fund]
                    ELSE ultimo_insertado
             /\ ultimo' = [op |-> "obtener", ticker |-> ticker,
                           excepcion |-> r.excepcion, filas |-> 0,
                           ret |-> r.ret, alertas |-> r.alertas,
                           hist |-> resp.hist]
             /\ fallos' = IF r.excepcion # "" THEN fallos \cup {ticker} ELSE fallos
             /\ IF r.propaga
                THEN /\ pc' = "aborted"
                     /\ UNCHANGED <<idx, progress, procesados>>
                ELSE /\ pc' = "running"
                     /\ idx' = idx + 1
                     /\ progress' = idx + 1
                     /\ procesados' = Append(procesados, ticker)
    /\ UNCHANGED <<tablas_existen, valVars, scoreVars, cacheVars, multiVars, otrosVars>>

\* After the loop: progress_bar.empty(); limpiar_datos_antiguos(db_name)
FinCiclo ==
    /\ pc = "running"
    /\ idx = Total
    /\ LET r == limpiar_datos_antiguos(datos_fundamentales)
       IN  /\ datos_fundamentales' = r.tabla
           /\ ultimo' = [SinOperacion EXCEPT !.op = "limpiar",
                                             !.filas = r.filas_eliminadas]
    /\ pc' = "done"
    /\ UNCHANGED <<tablas_existen, empresas, seq_fund, historico_precios,
                   alertas_validacion>>
    /\ UNCHANGED <<idx, progress, llamadas, procesados, fallos, ultimo_insertado,
                   errores_bd>>
    /\ UNCHANGED <<valVars, scoreVars, cacheVars, multiVars, otrosVars>>

\* The "Limpiar" button of the sidebar
Limpiar ==
    /\ pc \in {"idle", "done"}
    /\ tablas_existen
    /\ LET r == limpiar_datos_antiguos(datos_fundamentales)
       IN  /\ datos_fundamentales' = r.tabla
           /\ ultimo' = [SinOperacion EXCEPT !.op = "limpiar",
                                             !.filas = r.filas_eliminadas]
    /\ UNCHANGED <<tablas_existen, empresas, seq_fund, historico_precios,
                   alertas_validacion>>
    /\ UNCHANGED <<pc, idx, progress, llamadas, procesados, fallos, ultimo_insertado,
                   errores_bd>>
    /\ UNCHANGED <<valVars, scoreVars, cacheVars, multiVars, otrosVars>>

OtrosInit0 ==
    /\ e_bd = <<>> /\ e_ultimo = <<>>
    /\ ciclos = <<>>
    /\ x_in = <<>> /\ x_out = <<>>

MultiInit0 ==
    /\ m_bd = <<>>
    /\ m_pc = "idle"
    /\ m_mercado = 0
    /\ m_idx = 0
    /\ m_contador = 0
    /\ m_completados = {}
    /\ m_ultimo = <<>>

Init == StoreInit /\ CycleInit /\ ValInit0 /\ ScoreInit0 /\ CacheInit0 /\ MultiInit0 /\ OtrosInit0

Next == CrearBaseDatos \/ IniciarCiclo \/ ProcesarTicker \/ FinCiclo \/ Limpiar

Spec == Init /\ [][Next]_vars

---------------------------------------------------------------------------
(* Claims about the store and the refresh cycle, checked under Spec *)

Vista == cargar_datos_desde_bd(tablas_existen, empresas, datos_fundamentales)
FilasDe(tabla, t) == {r \in tabla : r.ticker = t}
VistaDe(t) == {fila \in Vista : fila.e.ticker = t}

\* C1: after any sequence of appends and purges, cargar_datos_desde_bd holds,
\* for every catalog ticker with at least one fundamentals row, exactly one
\* row, and it is the row appended last for that ticker.
C1_VistaUltimaFila ==
    tablas_existen =>
        \A e \in empresas :
            FilasDe(datos_fundamentales, e.ticker) # {} =>
                /\ Cardinality(VistaDe(e.ticker)) = 1
                /\ \A fila \in VistaDe(e.ticker) :
                       /\ fila.df[1].id = ultimo_insertado[e.ticker]
                       /\ fila.df[1] \in datos_fundamentales

\* A purge has deleted rows (ids are missing below seq_fund), a row was then
\* appended to a ticker that kept its older row, and the view shows the new one.
C1_Witness ==
    /\ ultimo.op = "obtener"
    /\ ultimo.excepcion = ""
    /\ Cardinality(datos_fundamentales) < seq_fund
    /\ Cardinality(FilasDe(datos_fundamentales, ultimo.ticker)) = 2
    /\ \E fila \in VistaDe(ultimo.ticker) : fila.df[1].id = seq_fund

\* C2: limpiar_datos_antiguos leaves, for each ticker that had a row, exactly
\* its row of maximum id, and returns (rows before) - (tickers with a row).
C2_PurgaDejaUltima ==
    [][ultimo'.op = "limpiar" =>
         /\ \A t \in TickersDe(datos_fundamentales) :
                /\ Cardinality(FilasDe(datos_fundamentales', t)) = 1
                /\ \A r \in FilasDe(datos_fundamentales', t) :
                       /\ r \in datos_fundamentales
                       /\ \A q \in FilasDe(datos_fundamentales, t) : q.id <= r.id
         /\ TickersDe(datos_fundamentales') = TickersDe(datos_fundamentales)
         /\ ultimo'.filas = Cardinality(datos_fundamentales)
                              - Cardinality(TickersDe(datos_fundamentales))]_vars

\* A purge that deleted a row of each of the two tickers
C2_Witness ==
    /\ ultimo.op = "limpiar"
    /\ ultimo.filas = 2
    /\ Cardinality(datos_fundamentales) = 2

\* C3: cargar_datos_desde_bd returns one row for every ticker of the Catalog,
\* also for a ticker that has no fundamentals row yet.
C3_VistaTodoElCatalogo ==
    tablas_existen =>
        \A e \in empresas : Cardinality(VistaDe(e.ticker)) = 1

\* C4: no failure of fetch, validation or persistence for one ticker aborts
\* the cycle; the loop goes through every ticker in order and a finished
\* cycle has progress = total.
C4_CicloNoAborta ==
    /\ pc # "aborted"
    /\ pc \in {"running", "done"} =>
           /\ progress = idx
           /\ procesados = SubSeq(Symbols, 1, idx)
    /\ pc = "done" => progress = Total /\ procesados = Symbols

\* A finished cycle in which the first ticker failed and the second one was
\* still fetched, validated and persisted
C4_Witness ==
    /\ pc = "done"
    /\ progress = Total
    /\ fallos = {Symbols[1]}
    /\ FilasDe(datos_fundamentales, Symbols[2]) # {}
    /\ FilasDe(datos_fundamentales, Symbols[1]) = {}

\* C5: when obtener_datos_empresa takes its exception path because the
\* provider fetch failed, alertas_validacion gains a row for that ticker.
C5_FalloRegistraAlerta ==
    [][(ultimo'.op = "obtener" /\ ultimo'.excepcion = "ProviderError") =>
         \E i \in (Len(alertas_validacion) + 1)..Len(alertas_validacion') :
             alertas_validacion'[i].ticker = ultimo'.ticker]_vars

---------------------------------------------------------------------------
(* validar_y_corregir_datos on its own: one call on a field bag *)

\* a history of two bars: one daily return, whose std() is NaN
HistCorto == [bars |-> <<Bar(1, 9900, Num(500)), Bar(2, 10000, Num(600))>>,
              vol |-> NaN]

\* The keys of stock.info the validator reads
CamposInfo ==
    {"currentPrice", "regularMarketPrice", "dividendYield", "targetMeanPrice",
     "targetHighPrice", "targetLowPrice", "trailingPE", "forwardPE",
     "priceToBook", "marketCap", "returnOnEquity", "returnOnAssets",
     "numberOfAnalystOpinions", "recommendationKey", "revenueGrowth", "beta"}

\* What a field of the bag can hold: zero, a negative number, a fraction,
\* one, larger numbers, None, NaN, text
ValoresCampo ==
    {Num(0), Num(-2 * Scale), Num(45), Num(1 * Scale), Num(22 * Scale),
     Num(150 * Scale), None, NaN, Str("HOLD")}

SinCampo(info, campo) == [c \in (DOMAIN info) \ {campo} |-> info[c]]

\* RawQuote field bags: the empty bag, a complete one, and the complete one
\* with one field missing or replaced
BolsasDeCampos ==
    {<<>>, InfoSano}
        \cup {SinCampo(InfoSano, c) : c \in CamposInfo}
        \cup {(c :> v) @@ InfoSano : c \in CamposInfo, v \in ValoresCampo}

Historicos == {HistVacio, HistCorto, HistA}
SectoresValidar == {"Retail", "Utilities", "Technology"}

ValInit ==
    /\ v_in \in {[info |-> i, hist |-> h, sector |-> sec, ticker |-> Symbols[1],
                  bd |-> "", estado |-> "pendiente"] :
                    i \in BolsasDeCampos, h \in Historicos, sec \in SectoresValidar}
    /\ v_out = <<>>

\* One call of validar_y_corregir_datos(info, ticker, hist, sector, db_name):
\* the record is built and scored, then insertar_alerta runs for each alert;
\* bd = "alerta" is a run in which insertar_alerta raises at alert k + 1.
Validar ==
    /\ v_in # <<>>
    /\ v_in.estado = "pendiente"
    /\ \E val \in {validar_y_corregir_datos(v_in.info, v_in.hist, v_in.sector)} :
       \E bd \in (IF val.raised \/ Len(val.alertas) = 0
                  THEN {"ninguno"} ELSE {"ninguno", "alerta"}) :
       \E k \in (IF bd = "alerta" THEN 0..(Len(val.alertas) - 1)
                 ELSE {Len(val.alertas)}) :
          /\ alertas_validacion' =
                 InsertarAlertas(alertas_validacion, v_in.ticker, val.alertas, k)
          /\ v_out' = [raised |-> val.raised \/ bd = "alerta",
                       datos |-> IF bd = "alerta" THEN <<>> ELSE val.datos,
                       alertas |-> IF bd = "alerta" THEN <<>> ELSE val.alertas]
          /\ v_in' = [v_in EXCEPT !.estado = "hecho", !.bd = bd]
    /\ UNCHANGED <<tablas_existen, empresas, datos_fundamentales, seq_fund,
                   historico_precios>>
    /\ UNCHANGED <<cycleVars, scoreVars, cacheVars, multiVars, otrosVars>>

InitValidar ==
    /\ tablas_existen = TRUE
    /\ empresas = {}
    /\ datos_fundamentales = {}
    /\ seq_fund = 0
    /\ historico_precios = {}
    /\ alertas_validacion = <<>>
    /\ CycleInit /\ ValInit /\ ScoreInit0 /\ CacheInit0 /\ MultiInit0 /\ OtrosInit0

NextValidar == Validar

SpecValidar == InitValidar /\ [][NextValidar]_vars

\* C6: validar_y_corregir_datos never raises: for every field bag (a field
\* missing, None or garbage) and an empty or non-empty history, a call whose
\* store writes succeed returns one record (with its Score) and an alert list.
C6_ValidadorNoLanza ==
    (v_in.estado = "hecho" /\ v_in.bd = "ninguno") =>
        /\ ~v_out.raised
        /\ "Score" \in DOMAIN v_out.datos

---------------------------------------------------------------------------
(* calcular_score_mejorado on its own: two calls on the same record *)

Registro(upside, div_yield, pe, pb, roe, growth, roa, analysts, rec, vol, beta, mcap) ==
       ("Upside_%" :> upside) @@ ("Dividend_Yield" :> div_yield)
    @@ ("PE_Ratio" :> pe) @@ ("Price_Book" :> pb) @@ ("ROE" :> roe)
    @@ ("Revenue_Growth" :> growth) @@ ("ROA" :> roa)
    @@ ("Num_Analysts" :> analysts) @@ ("Recommendation" :> rec)
    @@ ("Volatilidad" :> vol) @@ ("Beta" :> beta) @@ ("Market_Cap" :> mcap)

\* Every combination of a best and a worst value of each field the scorer reads
RegistrosExtremos ==
    {Registro(upside, div_yield, pe, pb, roe, growth, roa, analysts, rec, vol, beta, mcap) :
        upside \in {Num(30 * Scale), Num(-10 * Scale)},
        div_yield \in {Num(8 * Scale), Num(0)},
        pe \in {Num(8 * Scale), Num(40 * Scale)},
        pb \in {Num(500), Num(6 * Scale)},
        roe \in {Num(30 * Scale), Num(-5 * Scale)},
        growth \in {Num(25 * Scale), Num(-10 * Scale)},
        roa \in {Num(20 * Scale), Num(0)},
        analysts \in {Num(25), Num(0)},
        rec \in {Str("STRONG_BUY"), Str("Strong_Sell")},
        vol \in {Num(20 * Scale), Num(70 * Scale)},
        beta \in {Num(1 * Scale), Num(2500)},
        mcap \in {Num(10 * Scale), Num(200)}}

RegistroMejor ==
    Registro(Num(30 * Scale), Num(8 * Scale), Num(8 * Scale), Num(500),
             Num(30 * Scale), Num(25 * Scale), Num(20 * Scale), Num(25),
             Str("STRONG_BUY"), Num(20 * Scale), Num(1 * Scale), Num(10 * Scale))
RegistroPeor ==
    Registro(Num(-10 * Scale), Num(0), Num(40 * Scale), Num(6 * Scale),
             Num(-5 * Scale), Num(-10 * Scale), Num(0), Num(0),
             Str("Strong_Sell"), Num(70 * Scale), Num(2500), Num(200))

\* The best and the worst record with one field missing, NaN or mid-range
RegistrosVariantes ==
    {<<>>}
        \cup {SinCampo(r, c) : r \in {RegistroMejor, RegistroPeor},
                               c \in NumericKeys \cup {"Recommendation"}}
        \cup {(c :> v) @@ r : r \in {RegistroMejor, RegistroPeor},
                              c \in NumericKeys,
                              v \in {NaN, Num(0), Num(4 * Scale), Num(12 * Scale),
                                     Num(50 * Scale)}}
        \cup {("Recommendation" :> Str(x)) @@ r :
                  r \in {RegistroMejor, RegistroPeor},
                  x \in {"Buy", "HOLD", "sell", "N/A"}}

\* A record with only the seven fields upside 12, dividend 6, P/E 11,
\* ROE 22, volatility 18, 18 analysts, market cap 15: the scorer reads the
\* other fields through .get() with its defaults
EscenarioBase ==
       ("Upside_%" :> Num(12 * Scale)) @@ ("Dividend_Yield" :> Num(6 * Scale))
    @@ ("PE_Ratio" :> Num(11 * Scale)) @@ ("ROE" :> Num(22 * Scale))
    @@ ("Volatilidad" :> Num(18 * Scale)) @@ ("Num_Analysts" :> Num(18))
    @@ ("Market_Cap" :> Num(15 * Scale))

\* Revenue growths above 5 and ROAs above 10, across the steps of their
\* point tables and up to the validator's clamps
CrecimientosBonus ==
    {Num(5001), Num(6 * Scale), Num(10 * Scale), Num(15 * Scale),
     Num(20 * Scale), Num(100 * Scale)}
RoasBonus == {Num(10001), Num(11 * Scale), Num(15 * Scale), Num(50 * Scale)}

\* The record extended with a revenue growth, a ROA, or both
RegistrosEscenario ==
    {EscenarioBase}
        \cup {("Revenue_Growth" :> g) @@ EscenarioBase : g \in CrecimientosBonus}
        \cup {("ROA" :> a) @@ EscenarioBase : a \in RoasBonus}
        \cup {("Revenue_Growth" :> g) @@ ("ROA" :> a) @@ EscenarioBase :
                  g \in CrecimientosBonus, a \in RoasBonus}

\* A record with only the seven fields upside 30, dividend 0, P/E 85, ROE 2,
\* volatility 75, 2 analysts, market cap 0.2
EscenarioDebil ==
       ("Upside_%" :> Num(30 * Scale)) @@ ("Dividend_Yield" :> Num(0))
    @@ ("PE_Ratio" :> Num(85 * Scale)) @@ ("ROE" :> Num(2 * Scale))
    @@ ("Volatilidad" :> Num(75 * Scale)) @@ ("Num_Analysts" :> Num(2))
    @@ ("Market_Cap" :> Num(200))

SectoresScore == {"Technology", "Utilities", "Energy", "Otros", ""}

ScoreInit ==
    /\ s_in \in {[datos |-> d, sector |-> sec, llamadas |-> 0] :
                    d \in RegistrosExtremos \cup RegistrosVariantes
                           \cup RegistrosEscenario,
                    sec \in SectoresScore}
                \cup {[datos |-> EscenarioDebil, sector |-> sec, llamadas |-> 0] :
                        sec \in DOMAIN sector_ajustes \cup {"Otros", ""}}
    /\ s_out = <<>>

\* calcular_score_mejorado(datos_corregidos, sector): reads the record with
\* .get() and a local sector_ajustes dict, writes nothing but its return value
PrimeraLlamada ==
    /\ s_in # <<>>
    /\ s_in.llamadas = 0
    /\ s_out' = <<calcular_score_mejorado(s_in.datos, s_in.sector)>>
    /\ s_in' = [s_in EXCEPT !.llamadas = 1]
    /\ UNCHANGED <<storeVars, cycleVars, valVars, cacheVars, multiVars, otrosVars>>

SegundaLlamada ==
    /\ s_in # <<>>
    /\ s_in.llamadas = 1
    /\ s_out' = Append(s_out, calcular_score_mejorado(s_in.datos, s_in.sector))
    /\ s_in' = [s_in EXCEPT !.llamadas = 2]
    /\ UNCHANGED <<storeVars, cycleVars, valVars, cacheVars, multiVars, otrosVars>>

InitScore ==
    StoreInit /\ CycleInit /\ ValInit0 /\ ScoreInit /\ CacheInit0 /\ MultiInit0 /\ OtrosInit0

NextScore == PrimeraLlamada \/ SegundaLlamada

SpecScore == InitScore /\ [][NextScore]_vars

EscenarioPuntuado ==
    /\ s_in # <<>>
    /\ s_in.datos \in RegistrosEscenario \ {EscenarioBase}
    /\ s_in.sector \notin DOMAIN sector_ajustes
    /\ Len(s_out) >= 1

\* C20: for the record {upside 12, dividend 6, P/E 11, ROE 22, volatility 18,
\* 18 analysts, market cap 15} extended so that it qualifies for an excellence
\* bonus, the other fields at the scorer's defaults and the sector
\* unrecognized, calcular_score_mejorado returns a score >= 75.
C20_EscenarioMuyAtractivo ==
    EscenarioPuntuado => s_out[1] >= 75

\* C20, as the code has it: the score of that record is at least 65 and
\* below 75.
C20_EscenarioAtractivo ==
    EscenarioPuntuado => (s_out[1] >= 65 /\ s_out[1] < 75)

\* the record with revenue growth 100 and ROA 50, both bonuses, scored 74
C20_Witness ==
    /\ EscenarioPuntuado
    /\ s_in.datos = ("Revenue_Growth" :> Num(100 * Scale))
                        @@ ("ROA" :> Num(50 * Scale)) @@ EscenarioBase
    /\ s_out[1] = 74

\* C21: for the record {upside 30, dividend 0, P/E 85, ROE 2, volatility 75,
\* 2 analysts, market cap 0.2}, the other fields at the scorer's defaults and
\* any sector label, calcular_score_mejorado returns a score below 40, which
\* clasificar_score puts in the band "NO RECOMENDADA" or "EVITAR".
C21_EscenarioDebil ==
    (s_in # <<>> /\ s_in.datos = EscenarioDebil) =>
        \A i \in 1..Len(s_out) :
            /\ s_out[i] < 40
            /\ clasificar_score(s_out[i]) \in {"NO RECOMENDADA", "EVITAR"}

\* the record scored in an energy sector, whose volatility tolerance adds 3
\* to the 9 points of the buckets
C21_Witness ==
    /\ s_in # <<>>
    /\ s_in.datos = EscenarioDebil
    /\ s_in.sector = "Energy"
    /\ Len(s_out) >= 1
    /\ s_out[1] = 12
    /\ clasificar_score(s_out[1]) = "EVITAR"

---------------------------------------------------------------------------
(* StockAnalyzer: the parquet cache and its metadata (stock_analyzer.py) *)

\* Time is counted in hours.  cache_hours as app.py constructs the analyzer.
CacheHours == 24
\* Hours the model follows
MaxTime == 30

\* "Fresh" if age_hours < self.cache_hours else "Stale"
EstadoPorEdadLaxo(age_hours, cache_hours) ==
    IF age_hours <= cache_hours THEN "Fresh" ELSE "Stale"
EstadoPorEdad(age_hours, cache_hours) ==
    IF age_hours < cache_hours THEN "Fresh" ELSE "Stale"

\* The "status" of the dict get_cache_info returns at time t
get_cache_info(t, meta) ==
    IF meta.estado = "absent" THEN "No cache"
    ELSE EstadoPorEdad(t - meta.last_update, CacheHours)

\* _is_data_fresh at time t
is_data_fresh(t, meta) ==
    IF meta.estado = "absent" THEN FALSE
    ELSE (t - meta.last_update) < CacheHours

\* pd.read_parquet and all_stocks['Market'].unique(): a frame cached from a
\* download without any row has no 'Market' column and raises KeyError
CacheLegible(archivo) == archivo = "rows"

\* Whether load_data returns the cached frame instead of downloading
UsaCacheNunca(force_refresh, t, meta, archivo) == FALSE
UsaCache(force_refresh, t, meta, archivo) ==
    /\ ~force_refresh
    /\ is_data_fresh(t, meta)
    /\ archivo # "absent"
    /\ CacheLegible(archivo)

\* _save_to_cache: to_parquet, then _save_metadata; an exception of either is
\* logged and swallowed.  escritura names the write that fails, if any.
\* (The per-market parquet files are written last and are never read back.)
save_to_cache(t, meta, archivo, descarga, escritura) ==
    [all_stocks_file |-> IF escritura = "falla_parquet" THEN archivo ELSE descarga,
     metadata_file |-> IF escritura = "ok"
                       THEN [estado |-> "ok", last_update |-> t]
                       ELSE meta,
     saved |-> escritura = "ok"]

\* datetime.now() moves on by an hour
Tick ==
    /\ now < MaxTime
    /\ now' = now + 1
    /\ c_out' = SinOperacionCache
    /\ UNCHANGED <<metadata_file, all_stocks_file>>
    /\ UNCHANGED <<storeVars, cycleVars, valVars, scoreVars, multiVars, otrosVars>>

GetCacheInfo ==
    /\ c_out' = [SinOperacionCache EXCEPT
                    !.op = "get_cache_info",
                    !.status = get_cache_info(now, metadata_file)]
    /\ UNCHANGED <<now, metadata_file, all_stocks_file>>
    /\ UNCHANGED <<storeVars, cycleVars, valVars, scoreVars, multiVars, otrosVars>>

\* load_data(force_refresh).  descarga is what get_all_markets_data and
\* pd.concat give when the download happens: rows, or an empty frame when
\* the provider answered for no symbol.
LoadData ==
    \E force_refresh \in BOOLEAN :
        IF UsaCache(force_refresh, now, metadata_file, all_stocks_file)
        THEN /\ c_out' = [SinOperacionCache EXCEPT
                             !.op = "load_data", !.force = force_refresh]
             /\ UNCHANGED <<now, metadata_file, all_stocks_file>>
             /\ UNCHANGED <<storeVars, cycleVars, valVars, scoreVars, multiVars, otrosVars>>
        ELSE \E descarga \in {"rows", "empty"} :
             \E escritura \in {"ok", "falla_parquet", "falla_metadata"} :
             \E r \in {save_to_cache(now, metadata_file, all_stocks_file,
                                     descarga, escritura)} :
                 /\ all_stocks_file' = r.all_stocks_file
                 /\ metadata_file' = r.metadata_file
                 /\ c_out' = [SinOperacionCache EXCEPT
                                 !.op = "load_data", !.force = force_refresh,
                                 !.fetched = TRUE, !.saved = r.saved]
                 /\ UNCHANGED now
                 /\ UNCHANGED <<storeVars, cycleVars, valVars, scoreVars, multiVars, otrosVars>>

\* clear_cache: unlink every *.parquet, then metadata.pkl; an exception stops
\* it and is swallowed.  fallo names the unlink that raises, if any; the glob
\* order decides whether all_stocks.parquet was already removed by then.
ClearCache ==
    /\ \E fallo \in {"ninguno", "parquet", "metadata"} :
          /\ fallo = "parquet" => all_stocks_file # "absent"
          /\ fallo = "metadata" => metadata_file.estado # "absent"
          /\ all_stocks_file' \in
                 (IF fallo = "parquet" THEN {all_stocks_file, "absent"}
                  ELSE {"absent"})
          /\ metadata_file' =
                 IF fallo = "ninguno"
                 THEN [estado |-> "absent", last_update |-> 0]
                 ELSE metadata_file
    /\ c_out' = [SinOperacionCache EXCEPT !.op = "clear_cache"]
    /\ UNCHANGED now
    /\ UNCHANGED <<storeVars, cycleVars, valVars, scoreVars, multiVars, otrosVars>>

InitCache ==
    StoreInit /\ CycleInit /\ ValInit0 /\ ScoreInit0 /\ CacheInit0 /\ MultiInit0 /\ OtrosInit0

NextCache == Tick \/ GetCacheInfo \/ LoadData \/ ClearCache

SpecCache == InitCache /\ [][NextCache]_vars

---------------------------------------------------------------------------
(* Claims about the cache, checked under SpecCache *)

Edad == now - metadata_file.last_update

\* What the claim's four cases and the threshold rule ask of the status that
\* get_cache_info has just returned; sin_metadata is the status expected
\* when metadata.pkl is absent.
EstadoEsperado(sin_metadata) ==
    c_out.op = "get_cache_info" =>
        /\ metadata_file.estado = "absent" => c_out.status = sin_metadata
        /\ metadata_file.estado = "ok" =>
               /\ Edad = 23 => c_out.status = "Fresh"
               /\ Edad = 25 => c_out.status = "Stale"
               /\ Edad = CacheHours => c_out.status = "Stale"
               /\ Edad < CacheHours => c_out.status = "Fresh"
               /\ Edad >= CacheHours => c_out.status = "Stale"

\* A load_data(force_refresh=False) step taken when the status is one of
\* estados downloads from the provider.
RefrescaCuando(estados) ==
    (/\ c_out'.op = "load_data"
     /\ ~c_out'.force
     /\ get_cache_info(now, metadata_file) \in estados) => c_out'.fetched

\* C8 (as the spec states it): last_update 23h ago gives "Fresh", 25h ago
\* "Stale", exactly the threshold "Stale", absent metadata gives "Unknown";
\* Stale and Unknown both make load_data(False) refresh from the provider.
C8_EstadoUnknown ==
    /\ [](EstadoEsperado("Unknown"))
    /\ [][RefrescaCuando({"Stale", "Unknown"})]_vars

\* C8 (amended): the same, except that absent metadata gives the status
\* "No cache"; Stale and "No cache" both make load_data(False) refresh.
C8_EstadoNoCache ==
    /\ [](EstadoEsperado("No cache"))
    /\ [][RefrescaCuando({"Stale", "No cache"})]_vars

\* get_cache_info answered "Stale" at an age of exactly cache_hours
C8_Witness ==
    /\ c_out.op = "get_cache_info"
    /\ metadata_file.estado = "ok"
    /\ Edad = CacheHours
    /\ c_out.status = "Stale"

\* A load_data(force_refresh=False) step that returns the cached frame:
\* no download and no write
SirveDeCache ==
    /\ ~c_out'.fetched
    /\ UNCHANGED <<metadata_file, all_stocks_file>>

C10_ForzadoLuegoCache ==
    /\ [][(c_out'.op = "load_data" /\ c_out'.force) =>
             /\ c_out'.fetched
             /\ c_out'.saved =>
                    metadata_file' = [estado |-> "ok", last_update |-> now]]_vars
    /\ [][(/\ c_out.op = "load_data" /\ c_out.force /\ c_out.saved
           /\ c_out'.op = "load_data" /\ ~c_out'.force) => SirveDeCache]_vars

---------------------------------------------------------------------------
(* Further claims about the refresh cycle, checked under Spec *)

\* C11: when a refresh cycle has completed (every ticker processed, then the
\* purge), datos_fundamentales holds exactly one row for each ticker whose
\* call succeeded in this cycle, that row is the one this cycle wrote, and
\* no ticker has more than one row.
C11_UnaFilaTrasCiclo ==
    pc = "done" =>
        /\ \A i \in 1..Total :
               Symbols[i] \notin fallos =>
                   /\ Cardinality(FilasDe(datos_fundamentales, Symbols[i])) = 1
                   /\ \A r \in FilasDe(datos_fundamentales, Symbols[i]) :
                          r.id = ultimo_insertado[Symbols[i]]
        /\ \A t \in TickersDe(datos_fundamentales) :
               Cardinality(FilasDe(datos_fundamentales, t)) = 1

\* The second cycle has completed without a failure: its purge removed the
\* two rows of the first cycle
C11_Witness ==
    /\ pc = "done"
    /\ fallos = {}
    /\ ultimo.op = "limpiar"
    /\ ultimo.filas = Total
    /\ {r.id : r \in datos_fundamentales} = {Total + 1, Total + 2}

---------------------------------------------------------------------------
(* "Actualizar TODOS los Mercados" and the read operations, one store file
   per market *)

\* MERCADOS, in dict order: the first two markets with their first tickers
MERCADOS ==
    <<[nombre |-> "IBEX 35", symbols |-> <<"ITX.MC", "IBE.MC">>,
       db_name |-> "Ibex35.db"],
      [nombre |-> "NASDAQ Top 25", symbols |-> <<"AAPL", "MSFT">>,
       db_name |-> "NDX25.db"]>>
NombresMulti ==
    ("ITX.MC" :> "Inditex") @@ ("IBE.MC" :> "Iberdrola")
        @@ ("AAPL" :> "Apple") @@ ("MSFT" :> "Microsoft")
SECTORES_NASDAQ == ("AAPL" :> "Technology") @@ ("MSFT" :> "Technology")

obtener_sectores(mercado) ==
    IF mercado = "IBEX 35" \/ mercado = "Espana Medium Cap" THEN SECTORES_IBEX
    ELSE IF mercado = "NASDAQ Top 25" THEN SECTORES_NASDAQ
    ELSE <<>>

NumMercados == Len(MERCADOS)
BasesDeDatos == {MERCADOS[i].db_name : i \in 1..NumMercados}

\* total_empresas = sum(len(m["symbols"]) for m in MERCADOS.values())
RECURSIVE SumaSymbols(_)
SumaSymbols(n) == IF n = 0 THEN 0 ELSE SumaSymbols(n - 1) + Len(MERCADOS[n].symbols)
total_empresas == SumaSymbols(NumMercados)

\* A store file: archivo is "absent" (no file), "sin_tablas" (the file exists
\* and holds no table) or "ok" (crear_base_datos has created the four tables)
BdVacia(archivo) ==
    [archivo |-> archivo, empresas |-> {}, datos_fundamentales |-> {},
     seq_fund |-> 0, historico_precios |-> {}, alertas_validacion |-> <<>>]

\* crear_base_datos(db): connect and CREATE TABLE IF NOT EXISTS
crear_base_datos(bd) == [bd EXCEPT !.archivo = "ok"]

\* sqlite3.connect creates the file when there is none
Conectar(bd) ==
    IF bd.archivo = "absent" THEN [bd EXCEPT !.archivo = "sin_tablas"] ELSE bd

RespuestasMulti ==
    {[falla |-> TRUE, info |-> <<>>, hist |-> HistVacio],
     [falla |-> FALSE, info |-> InfoSano, hist |-> HistA],
     [falla |-> FALSE, info |-> InfoAnomalo, hist |-> HistB]}

\* The first store write of obtener_datos_empresa raises "no such table"
\* on a file without tables: insertar_alerta if the validator has an alert,
\* insertar_empresa otherwise
FalloPorTablas(bd, resp, sector) ==
    IF bd.archivo = "ok" \/ resp.falla THEN "ninguno"
    ELSE IF Len(validar_y_corregir_datos(resp.info, resp.hist, sector).alertas) > 0
         THEN "alerta"
         ELSE "empresa"

SinOperacionMulti ==
    [op |-> "", db |-> "", ticker |-> "", excepcion |-> "", filas |-> 0]

MultiInit ==
    /\ m_bd \in [BasesDeDatos -> {BdVacia(a) : a \in {"absent", "sin_tablas", "ok"}}]
    /\ m_pc = "idle"
    /\ m_mercado = 0
    /\ m_idx = 0
    /\ m_contador = 0
    /\ m_completados = {}
    /\ m_ultimo = SinOperacionMulti

\* cargar_historico_desde_bd(ticker, 365, db): connect, then
\* pd.read_sql_query on historico_precios with no try around it; the query
\* raises pandas' DatabaseError when the table does not exist
cargar_historico_desde_bd(bd, ticker) ==
    IF bd.archivo # "ok"
    THEN [excepcion |-> "DatabaseError", filas |-> {}]
    ELSE [excepcion |-> "",
          filas |-> {b \in bd.historico_precios : b.ticker = ticker}]

\* The button: progress_bar = st.progress(0); contador = 0; first market
ActualizarTodos ==
    /\ m_pc = "idle"
    /\ m_pc' = "abrir"
    /\ m_mercado' = 1
    /\ m_idx' = 0
    /\ m_contador' = 0
    /\ m_completados' = {}
    /\ m_ultimo' = [SinOperacionMulti EXCEPT !.op = "actualizar_todos"]
    /\ UNCHANGED m_bd
    /\ UNCHANGED <<storeVars, cycleVars, valVars, scoreVars, cacheVars, otrosVars>>

\* Top of the market loop: if not os.path.exists(get_db_path(db)): crear_base_datos(db)
AbrirMercado ==
    /\ m_pc = "abrir"
    /\ \E db \in {MERCADOS[m_mercado].db_name} :
          /\ m_bd' = [m_bd EXCEPT ![db] =
                         IF m_bd[db].archivo = "absent"
                         THEN crear_base_datos(m_bd[db]) ELSE m_bd[db]]
          /\ m_ultimo' = [SinOperacionMulti EXCEPT !.op = "abrir", !.db = db]
    /\ m_pc' = "tickers"
    /\ m_idx' = 0
    /\ UNCHANGED <<m_mercado, m_contador, m_completados>>
    /\ UNCHANGED <<storeVars, cycleVars, valVars, scoreVars, cacheVars, otrosVars>>

\* One iteration of "for ticker, nombre in symbols.items()"
ProcesarTickerMulti ==
    /\ m_pc = "tickers"
    /\ m_idx < Len(MERCADOS[m_mercado].symbols)
    /\ \E mercado \in {MERCADOS[m_mercado]} :
       \E ticker \in {mercado.symbols[m_idx + 1]} :
       \E sectores \in {obtener_sectores(mercado.nombre)} :
       \E resp \in RespuestasMulti :
       \E bd \in {FalloPorTablas(m_bd[mercado.db_name], resp,
                                 DictGet(sectores, ticker, "Otros"))} :
       \E r \in {obtener_datos_empresa(m_bd[mercado.db_name], ticker,
                                       NombresMulti[ticker], mercado.nombre,
                                       sectores, resp, bd, 0)} :
          /\ m_bd' = [m_bd EXCEPT ![mercado.db_name] =
                         [archivo |-> Conectar(m_bd[mercado.db_name]).archivo,
                          empresas |-> r.empresas,
                          datos_fundamentales |-> r.datos_fundamentales,
                          seq_fund |-> r.seq_fund,
                          historico_precios |-> r.historico_precios,
                          alertas_validacion |-> r.alertas_validacion]]
          /\ m_ultimo' = [SinOperacionMulti EXCEPT
                             !.op = "obtener", !.db = mercado.db_name,
                             !.ticker = ticker, !.excepcion = r.excepcion]
          /\ IF r.propaga
             THEN /\ m_pc' = "aborted"
                  /\ UNCHANGED <<m_idx, m_contador>>
             ELSE /\ m_pc' = "tickers"
                  /\ m_idx' = m_idx + 1
                  /\ m_contador' = m_contador + 1
    /\ UNCHANGED <<m_mercado, m_completados>>
    /\ UNCHANGED <<storeVars, cycleVars, valVars, scoreVars, cacheVars, otrosVars>>

\* After the ticker loop: limpiar_datos_antiguos(db), which is called outside
\* any try; its DELETE raises sqlite3.OperationalError when the table is
\* missing and the exception leaves the button handler.  Then the next
\* market, or progress_bar.empty() and the success message.
PurgarMercado ==
    /\ m_pc = "tickers"
    /\ m_idx = Len(MERCADOS[m_mercado].symbols)
    /\ \E db \in {MERCADOS[m_mercado].db_name} :
          IF m_bd[db].archivo # "ok"
          THEN /\ m_pc' = "aborted"
               /\ m_ultimo' = [SinOperacionMulti EXCEPT
                                  !.op = "limpiar", !.db = db,
                                  !.excepcion = "OperationalError"]
               /\ UNCHANGED <<m_bd, m_mercado, m_idx, m_completados>>
          ELSE \E r \in {limpiar_datos_antiguos(m_bd[db].datos_fundamentales)} :
               /\ m_bd' = [m_bd EXCEPT ![db].datos_fundamentales = r.tabla]
               /\ m_ultimo' = [SinOperacionMulti EXCEPT
                                  !.op = "limpiar", !.db = db,
                                  !.filas = r.filas_eliminadas]
               /\ m_completados' = m_completados \cup {MERCADOS[m_mercado].nombre}
               /\ IF m_mercado < NumMercados
                  THEN /\ m_mercado' = m_mercado + 1
                       /\ m_pc' = "abrir"
                       /\ m_idx' = 0
                  ELSE /\ m_pc' = "done"
                       /\ UNCHANGED <<m_mercado, m_idx>>
    /\ UNCHANGED m_contador
    /\ UNCHANGED <<storeVars, cycleVars, valVars, scoreVars, cacheVars, otrosVars>>

\* cargar_datos_desde_bd(None, db) called between refreshes
LeerVista ==
    /\ m_pc \in {"idle", "done", "aborted"}
    /\ \E db \in BasesDeDatos :
          /\ m_bd' = [m_bd EXCEPT ![db] = Conectar(m_bd[db])]
          /\ m_ultimo' = [SinOperacionMulti EXCEPT
                             !.op = "cargar_datos", !.db = db,
                             !.filas = Cardinality(cargar_datos_desde_bd(
                                           m_bd[db].archivo = "ok", m_bd[db].empresas,
                                           m_bd[db].datos_fundamentales))]
    /\ UNCHANGED <<m_pc, m_mercado, m_idx, m_contador, m_completados>>
    /\ UNCHANGED <<storeVars, cycleVars, valVars, scoreVars, cacheVars, otrosVars>>

\* cargar_historico_desde_bd(ticker, 365, db) called between refreshes
LeerHistorico ==
    /\ m_pc \in {"idle", "done", "aborted"}
    /\ \E i \in 1..NumMercados :
       \E j \in 1..Len(MERCADOS[i].symbols) :
       \E db \in {MERCADOS[i].db_name} :
       \E r \in {cargar_historico_desde_bd(m_bd[db], MERCADOS[i].symbols[j])} :
          /\ m_bd' = [m_bd EXCEPT ![db] = Conectar(m_bd[db])]
          /\ m_ultimo' = [SinOperacionMulti EXCEPT
                             !.op = "cargar_historico", !.db = db,
                             !.ticker = MERCADOS[i].symbols[j],
                             !.excepcion = r.excepcion,
                             !.filas = Cardinality(r.filas)]
    /\ UNCHANGED <<m_pc, m_mercado, m_idx, m_contador, m_completados>>
    /\ UNCHANGED <<storeVars, cycleVars, valVars, scoreVars, cacheVars, otrosVars>>

InitMulti ==
    StoreInit /\ CycleInit /\ ValInit0 /\ ScoreInit0 /\ CacheInit0 /\ MultiInit
        /\ OtrosInit0

NextMulti ==
    \/ ActualizarTodos \/ AbrirMercado \/ ProcesarTickerMulti \/ PurgarMercado
    \/ LeerVista \/ LeerHistorico

SpecMulti == InitMulti /\ [][NextMulti]_vars

C27_PurgaConservaVista ==
    [][(FinCiclo \/ Limpiar) =>
        /\ Vista' = Vista
        /\ empresas' = empresas
        /\ historico_precios' = historico_precios
        /\ alertas_validacion' = alertas_validacion
        /\ ultimo.op = "limpiar" => ultimo'.filas = 0]_vars

\* after two cycles and the purge that ended the second (rows 1 and 2
\* deleted), the "Limpiar" button deleted nothing: rows 3 and 4 are left
C27_Witness ==
    /\ pc = "done"
    /\ llamadas = 2 * Total
    /\ ultimo.op = "limpiar" /\ ultimo.filas = 0
    /\ {r.id : r \in datos_fundamentales} = {Total + 1, Total + 2}
    /\ Cardinality(Vista) = Total

\* C29: when the provider fetch for a ticker fails in a refresh cycle, the
\* call writes nothing (the placeholder record, score 30, is only returned),
\* and for the rest of the cycle, purge included, the ticker's catalog
\* entry, its latest fundamentals row and its price bars stay as they were.
C29_FalloDejaAlmacen ==
    /\ [][(ProcesarTicker /\ ultimo'.excepcion = "ProviderError") =>
             /\ empresas' = empresas
             /\ datos_fundamentales' = datos_fundamentales
             /\ historico_precios' = historico_precios
             /\ ultimo'.ret["Score"] = Num(30)]_vars
    /\ [][pc = "running" =>
             \A t \in fallos :
                 /\ FilasDe(empresas', t) = FilasDe(empresas, t)
                 /\ FilasDe(historico_precios', t) = FilasDe(historico_precios, t)
                 /\ {r \in FilasDe(datos_fundamentales', t) :
                        \A x \in FilasDe(datos_fundamentales', t) : x.id <= r.id}
                      = {r \in FilasDe(datos_fundamentales, t) :
                            \A x \in FilasDe(datos_fundamentales, t) : x.id <= r.id}]_vars

\* the second cycle has ended with its purge; the fetch of ITX.MC failed in
\* it, and ITX.MC still has its row of the first cycle, its catalog entry
\* and its price bars
C29_Witness ==
    /\ pc = "done"
    /\ llamadas = 2 * Total
    /\ fallos = {"ITX.MC"}
    /\ ultimo.op = "limpiar"
    /\ \E r \in datos_fundamentales :
          /\ r.ticker = "ITX.MC" /\ r.id <= Total /\ r.score # Num(30)
    /\ Cardinality(FilasDe(datos_fundamentales, "ITX.MC")) = 1
    /\ FilasDe(empresas, "ITX.MC") # {}
    /\ FilasDe(historico_precios, "ITX.MC") # {}

---------------------------------------------------------------------------
(* Claims about the multi-market refresh and the reads, checked under SpecMulti *)

\* C12: in the multi-market refresh a structural failure of one market's
\* store (the file exists without the tables) is confined to that market:
\* when the refresh has ended, the cycle of every market whose store has no
\* such failure has run to completion.
C12_FalloConfinado ==
    m_pc \in {"done", "aborted"} =>
        \A i \in 1..NumMercados :
            m_bd[MERCADOS[i].db_name].archivo # "sin_tablas" =>
                MERCADOS[i].nombre \in m_completados


\* C13: every read of a non-existent store (no file, or a file without the
\* tables) returns an empty result and does not raise, for the latest
\* fundamentals view (cargar_datos_desde_bd) and for the price history
\* (cargar_historico_desde_bd).
C13_LecturaVaciaSinError ==
    [][((LeerVista \/ LeerHistorico) /\ m_bd[m_ultimo'.db].archivo # "ok")
          => (m_ultimo'.excepcion = "" /\ m_ultimo'.filas = 0)]_vars


---------------------------------------------------------------------------
(* Claims about the corrections of the validator, checked under SpecValidar *)

\* The raw value of a field of the bag the call was given (0 when missing)
Crudo(campo) == DictGet(v_in.info, campo, Num(0))

\* The corrections the finished call applied: the fields whose returned value
\* is not the raw value (for the percentage fields, the raw value after the
\* fraction-to-percent rule), and the upside when it was overridden to +8
Correcciones ==
    {c \in {"Dividend_Yield", "ROE", "ROA", "Revenue_Growth"} :
        v_out.datos[c] #
            NormalizaPorcentaje(Crudo(
                CASE c = "Dividend_Yield" -> "dividendYield"
                  [] c = "ROE" -> "returnOnEquity"
                  [] c = "ROA" -> "returnOnAssets"
                  [] OTHER -> "revenueGrowth"))}
    \cup {c \in {"PE_Ratio", "PE_Forward", "Price_Book"} :
        v_out.datos[c] #
            Crudo(CASE c = "PE_Ratio" -> "trailingPE"
                    [] c = "PE_Forward" -> "forwardPE"
                    [] OTHER -> "priceToBook")}
    \cup {c \in {"Upside_%"} :
            /\ GT(Crudo("targetMeanPrice"), 0)
            /\ GT(v_out.datos["Precio_Actual"], 0)
            /\ UpsideSospechoso(Crudo("targetMeanPrice"), v_out.datos["Precio_Actual"])}

ValidadorTermino ==
    /\ v_in # <<>>
    /\ v_in.estado = "hecho"
    /\ ~v_out.raised

\* C16: every correction the validator applies (dividend reset,
\* suspicious-upside override, trailing P/E reset, forward P/E cap,
\* price/book cap, ROE, ROA and revenue-growth clamps) produces at least one
\* alert in the returned list and, when the alert writes succeed, in the
\* alert log for that ticker.
C16_CorreccionConAlerta ==
    (ValidadorTermino /\ Correcciones # {}) =>
        /\ Len(v_out.alertas) >= 1
        /\ v_in.bd = "ninguno" =>
              \E i \in DOMAIN alertas_validacion :
                  alertas_validacion[i].ticker = v_in.ticker

\* The alerts of the returned list that the dividend branch appends
AlertasDividendo ==
    SelectSeq(v_out.alertas,
              LAMBDA a : a \in {"Dividend Yield muy alto",
                                "Ajustado a 0% (verificar manualmente)",
                                "Dividend Yield negativo", "Ajustado a 0%"})

\* C17: for every raw dividend yield the corrected dividend yield d of a
\* finished call satisfies 0 <= d <= 15, and every reset to 0 comes with at
\* least one alert; raw 0.045 gives 4.5 with no alert and raw 22 gives 0
\* with exactly 2 alerts.
C17_DividendoEnRango ==
    ValidadorTermino =>
        /\ GE(v_out.datos["Dividend_Yield"], 0)
        /\ LE(v_out.datos["Dividend_Yield"], 15 * Scale)
        /\ ( /\ "Dividend_Yield" \in Correcciones
             /\ v_out.datos["Dividend_Yield"] = Num(0) )
              => Len(AlertasDividendo) >= 1
        /\ Crudo("dividendYield") = Num(45)
              => ( /\ v_out.datos["Dividend_Yield"] = Num(4500)
                   /\ Len(AlertasDividendo) = 0 )
        /\ Crudo("dividendYield") = Num(22 * Scale)
              => ( /\ v_out.datos["Dividend_Yield"] = Num(0)
                   /\ Len(AlertasDividendo) = 2 )

\* The four percentage fields: the key of the bag, the key of the record, the
\* bounds of the clamp and the value the clamp leaves outside each bound (the
\* dividend branch resets to 0 above 15 and below 0)
CamposPorcentaje ==
    {[crudo |-> "dividendYield", dato |-> "Dividend_Yield",
      lo |-> 0, hi |-> 15 * Scale, bajo |-> 0, alto |-> 0],
     [crudo |-> "returnOnEquity", dato |-> "ROE",
      lo |-> -50 * Scale, hi |-> 100 * Scale, bajo |-> -50 * Scale, alto |-> 100 * Scale],
     [crudo |-> "returnOnAssets", dato |-> "ROA",
      lo |-> -20 * Scale, hi |-> 50 * Scale, bajo |-> -20 * Scale, alto |-> 50 * Scale],
     [crudo |-> "revenueGrowth", dato |-> "Revenue_Growth",
      lo |-> -50 * Scale, hi |-> 100 * Scale, bajo |-> -50 * Scale, alto |-> 100 * Scale]}

\* C18: for each of dividend yield, ROE, ROA and revenue growth, the value
\* the validator clamps is the raw input times 100 when the raw input is
\* strictly between 0 and 1, and the raw input unchanged when it is >= 1 or
\* <= 0: the returned field is that value, or the clamp's replacement when
\* that value is outside the field's bounds; the rule is the same for the
\* four fields.
C18_FraccionAPorcentaje ==
    ValidadorTermino =>
        \A f \in CamposPorcentaje :
            Crudo(f.crudo).k = "num" =>
                \E n \in {IF 0 < Crudo(f.crudo).v /\ Crudo(f.crudo).v < 1 * Scale
                          THEN Crudo(f.crudo).v * 100
                          ELSE Crudo(f.crudo).v} :
                    v_out.datos[f.dato] =
                        Num(IF n > f.hi THEN f.alto
                            ELSE IF n < f.lo THEN f.bajo
                            ELSE n)

\* a finished call whose bag has the fractions 0.045, 0.22 and 0.11 (scaled
\* to 4.5, 22 and 11) and a revenue growth of exactly 1 (left at 1)
C18_Witness ==
    /\ ValidadorTermino
    /\ Crudo("dividendYield") = Num(45)
    /\ v_out.datos["Dividend_Yield"] = Num(4500)
    /\ Crudo("returnOnEquity") = Num(220)
    /\ v_out.datos["ROE"] = Num(22000)
    /\ Crudo("returnOnAssets") = Num(110)
    /\ v_out.datos["ROA"] = Num(11000)
    /\ Crudo("revenueGrowth") = Num(1 * Scale)
    /\ v_out.datos["Revenue_Growth"] = Num(1 * Scale)

\* C19: every record validar_y_corregir_datos returns satisfies
\* Total_Return_% = Upside_% + Dividend_Yield with the post-correction
\* values.
C19_RetornoTotal ==
    ValidadorTermino =>
        EQ(v_out.datos["Total_Return_%"],
           Plus(v_out.datos["Upside_%"], v_out.datos["Dividend_Yield"]))

\* C26: the corrected upside is within [-50, 50]: with a positive mean
\* target and a positive price it is (target_mean - price) / price x 100 when
\* that is at most 50 in absolute value, and 8 with target_mean = price x 1.08
\* and an alert when it is more; with a mean target or a price that is zero
\* or negative it is 5 with target_mean = price x 1.05, or 0 if the price is 0.
C26_UpsideAcotado ==
    ValidadorTermino =>
        \E p \in {v_out.datos["Precio_Actual"]} :
        \E tm \in {Crudo("targetMeanPrice")} :
        \E up \in {v_out.datos["Upside_%"]} :
        \E tmo \in {v_out.datos["Target_Mean"]} :
            /\ GE(up, -50 * Scale) /\ LE(up, 50 * Scale)
            /\ (GT(tm, 0) /\ GT(p, 0)) =>
                  IF (tm.v - p.v) * 100 <= 50 * p.v /\ (p.v - tm.v) * 100 <= 50 * p.v
                  THEN /\ up.k = "num"
                       /\ up.v * p.v <= (tm.v - p.v) * 100 * Scale
                       /\ (tm.v - p.v) * 100 * Scale < (up.v + 1) * p.v
                       /\ tmo = tm
                  ELSE /\ up = Num(8 * Scale)
                       /\ tmo.k = "num"
                       /\ tmo.v * 100 <= p.v * 108 /\ p.v * 108 < (tmo.v + 1) * 100
                       /\ \E i \in DOMAIN v_out.alertas :
                              v_out.alertas[i] = "Upside sospechoso"
            /\ (LE(tm, 0) \/ LE(p, 0)) =>
                  /\ up = Num(5 * Scale)
                  /\ IF p = Num(0) THEN tmo = Num(0)
                     ELSE /\ tmo.k = "num"
                          /\ tmo.v * 100 <= p.v * 105
                          /\ p.v * 105 < (tmo.v + 1) * 100

\* C26, as the code has it: with a mean target or a price that is zero or
\* negative the upside is 5 and target_mean is price x 1.05 when the price is
\* positive and 0 when the price is zero or negative; the rest as above.
C26_UpsideAcotadoPrecioNoPositivo ==
    ValidadorTermino =>
        \E p \in {v_out.datos["Precio_Actual"]} :
        \E tm \in {Crudo("targetMeanPrice")} :
        \E up \in {v_out.datos["Upside_%"]} :
        \E tmo \in {v_out.datos["Target_Mean"]} :
            /\ GE(up, -50 * Scale) /\ LE(up, 50 * Scale)
            /\ (GT(tm, 0) /\ GT(p, 0)) =>
                  IF (tm.v - p.v) * 100 <= 50 * p.v /\ (p.v - tm.v) * 100 <= 50 * p.v
                  THEN /\ up.k = "num"
                       /\ up.v * p.v <= (tm.v - p.v) * 100 * Scale
                       /\ (tm.v - p.v) * 100 * Scale < (up.v + 1) * p.v
                       /\ tmo = tm
                  ELSE /\ up = Num(8 * Scale)
                       /\ tmo.k = "num"
                       /\ tmo.v * 100 <= p.v * 108 /\ p.v * 108 < (tmo.v + 1) * 100
                       /\ \E i \in DOMAIN v_out.alertas :
                              v_out.alertas[i] = "Upside sospechoso"
            /\ (LE(tm, 0) \/ LE(p, 0)) =>
                  /\ up = Num(5 * Scale)
                  /\ IF LE(p, 0) THEN tmo = Num(0)
                     ELSE /\ tmo.k = "num"
                          /\ tmo.v * 100 <= p.v * 105
                          /\ p.v * 105 < (tmo.v + 1) * 100

\* a call with an empty history, a current price of 1 and a mean target of
\* 11: the computed upside of 1000 was overridden to 8, target 1.08
C26_Witness ==
    /\ ValidadorTermino
    /\ HistEmpty(v_in.hist)
    /\ v_out.datos["Precio_Actual"] = Num(1 * Scale)
    /\ Crudo("targetMeanPrice") = Num(11 * Scale)
    /\ v_out.datos["Upside_%"] = Num(8 * Scale)
    /\ v_out.datos["Target_Mean"] = Num(1080)
    /\ v_out.alertas = <<"Upside sospechoso", "Ajustado a +8%">>

---------------------------------------------------------------------------
(* Claims about the write paths of the refresh cycle, checked under Spec *)

\* C14: when a write to the store fails (catalog upsert, fundamentals
\* append, price-bar upsert or alert append raises), the failure is
\* surfaced to the caller of the refresh cycle: the cycle ends with the
\* error instead of going on to the next ticker and reporting success.
C14_EscrituraFallaEnVozAlta ==
    [][(ProcesarTicker /\ ultimo'.excepcion = "OperationalError")
          => pc' = "aborted"]_vars


\* C23: the multi-market refresh visits the markets in the order of
\* MERCADOS and runs one full cycle (all tickers, then the purge) for each;
\* its one progress counter goes up by exactly one per processed ticker,
\* never goes down, and equals the number of tickers of all markets when the
\* refresh has ended.
C23_ProgresoCombinado ==
    /\ [](m_pc \in {"done", "aborted"} =>
             /\ m_contador = total_empresas
             /\ m_completados = {MERCADOS[i].nombre : i \in 1..NumMercados})
    /\ [][/\ ProcesarTickerMulti => m_contador' = m_contador + 1
          /\ ~ProcesarTickerMulti => m_contador' = m_contador
          /\ m_mercado' # m_mercado =>
                ( /\ m_mercado' = m_mercado + 1
                  /\ m_mercado > 0 =>
                        ( /\ m_idx = Len(MERCADOS[m_mercado].symbols)
                          /\ MERCADOS[m_mercado].nombre \in m_completados' ) )]_vars

---------------------------------------------------------------------------
(* The schema of one store file: crear_base_datos,
   verificar_y_actualizar_estructura_bd and obtener_estadisticas_bd *)

\* The four tables crear_base_datos creates
TablasBd == {"empresas", "datos_fundamentales", "historico_precios",
             "alertas_validacion"}

\* Four "CREATE TABLE IF NOT EXISTS": a table that exists keeps its columns
\* and its rows; sqlite3.connect creates the file when there is none
CrearTablasDeCero(bd) ==
    [bd EXCEPT !.existe = TRUE, !.tablas = @ \cup TablasBd, !.con_mercado = TRUE,
               !.empresas = {}, !.datos_fundamentales = {},
               !.historico_precios = {}, !.alertas_validacion = <<>>]
CrearTablasSiNoExisten(bd) ==
    [bd EXCEPT !.existe = TRUE,
               !.tablas = @ \cup TablasBd,
               !.con_mercado = IF "empresas" \in bd.tablas THEN @ ELSE TRUE]

\* verificar_y_actualizar_estructura_bd(db_name): PRAGMA table_info(empresas)
\* lists no column when the table does not exist.  Without the column
\* mercado: CREATE TABLE IF NOT EXISTS empresas_new (a DDL statement, which
\* sqlite3 runs outside a transaction), then INSERT ... SELECT ... FROM
\* empresas, DROP TABLE empresas, ALTER TABLE ... RENAME and commit in one
\* transaction; the INSERT raises when there is no table empresas and the
\* except returns False.  aviso is the st.warning of that branch.
MigrarSinCopiar(bd) ==
    [bd |-> [bd EXCEPT !.existe = TRUE, !.con_mercado = TRUE, !.empresas = {}],
     aviso |-> TRUE, ret |-> TRUE]
verificar_y_actualizar_estructura_bd(bd) ==
    IF "empresas" \in bd.tablas /\ bd.con_mercado
    THEN [bd |-> [bd EXCEPT !.existe = TRUE], aviso |-> FALSE, ret |-> TRUE]
    ELSE IF "empresas" \notin bd.tablas
    THEN [bd |-> [bd EXCEPT !.existe = TRUE, !.tablas = @ \cup {"empresas_new"}],
          aviso |-> TRUE, ret |-> FALSE]
    ELSE [bd |-> [bd EXCEPT !.existe = TRUE,
                            !.tablas = @ \ {"empresas_new"},
                            !.con_mercado = TRUE,
                            !.empresas = {[ticker |-> r.ticker, empresa |-> r.empresa,
                                           sector |-> r.sector,
                                           mercado |-> "IBEX 35"] : r \in @}],
          aviso |-> TRUE, ret |-> TRUE]

\* obtener_estadisticas_bd(db_name): the sentinel when sqlite_master has no
\* table empresas; otherwise three COUNT(*) and MAX(fecha_actualizacion), and
\* the except returns the sentinel when one of them raises "no such table".
\* ultima_actualizacion 0 stands for None.
EstadisticasSinTry(bd) ==
    [num_empresas |-> Cardinality(bd.empresas),
     num_historicos |-> Cardinality(bd.historico_precios),
     ultima_actualizacion |-> 0,
     num_alertas |-> Len(bd.alertas_validacion),
     tablas_existen |-> "empresas" \in bd.tablas,
     excepcion |-> IF TablasBd \subseteq bd.tablas THEN "" ELSE "OperationalError"]
obtener_estadisticas_bd(bd) ==
    IF "empresas" \notin bd.tablas \/ ~(TablasBd \subseteq bd.tablas)
    THEN [num_empresas |-> 0, num_historicos |-> 0, ultima_actualizacion |-> 0,
          num_alertas |-> 0, tablas_existen |-> FALSE, excepcion |-> ""]
    ELSE [num_empresas |-> Cardinality(bd.empresas),
          num_historicos |-> Cardinality(bd.historico_precios),
          ultima_actualizacion |->
              IF bd.datos_fundamentales = {} THEN 0
              ELSE SetMax({r.fecha : r \in bd.datos_fundamentales}),
          num_alertas |-> Len(bd.alertas_validacion),
          tablas_existen |-> TRUE, excepcion |-> ""]

\* The store files the operations are run on: no file, a file with any
\* subset of the four tables, the table empresas with or without the column
\* mercado (a store written by the version before the column existed), and
\* rows in the tables that exist
EsquemaInit ==
    /\ e_bd \in
         {[existe |-> ex, tablas |-> T, con_mercado |-> cm,
           empresas |-> IF cm THEN {[r EXCEPT !.mercado = "IBEX 35"] : r \in E}
                        ELSE {[ticker |-> r.ticker, empresa |-> r.empresa,
                               sector |-> r.sector] : r \in E},
           datos_fundamentales |-> F, historico_precios |-> H,
           alertas_validacion |-> L] :
             ex \in BOOLEAN, T \in SUBSET TablasBd, cm \in BOOLEAN,
             E \in SUBSET {[ticker |-> Symbols[i], empresa |-> Nombres[Symbols[i]],
                            sector |-> DictGet(SECTORES_IBEX, Symbols[i], "Otros"),
                            mercado |-> ""] : i \in 1..Total},
             F \in {{}, {[id |-> 1, ticker |-> Symbols[1], fecha |-> 1],
                         [id |-> 2, ticker |-> Symbols[1], fecha |-> 2]}},
             H \in {{}, UpsertBarras({}, Symbols[1], HistA.bars)},
             L \in {<<>>, <<[ticker |-> Symbols[1], mensaje |-> "PE Ratio sospechoso"]>>}}
    /\ e_bd.tablas # {} => e_bd.existe
    /\ "empresas" \notin e_bd.tablas => (e_bd.empresas = {} /\ e_bd.con_mercado)
    /\ "datos_fundamentales" \notin e_bd.tablas => e_bd.datos_fundamentales = {}
    /\ "historico_precios" \notin e_bd.tablas => e_bd.historico_precios = {}
    /\ "alertas_validacion" \notin e_bd.tablas => e_bd.alertas_validacion = <<>>
    /\ e_ultimo = [op |-> "", aviso |-> FALSE, ret |-> TRUE, stats |-> <<>>]

\* crear_base_datos(db_name), as main calls it from the sidebar button
CrearEsquema ==
    /\ e_bd' = CrearTablasSiNoExisten(e_bd)
    /\ e_ultimo' = [op |-> "crear", aviso |-> FALSE, ret |-> TRUE, stats |-> <<>>]
    /\ UNCHANGED <<storeVars, cycleVars, valVars, scoreVars, cacheVars, multiVars,
                   concVars, estVars>>

\* verificar_y_actualizar_estructura_bd(db_name)
MigrarEsquema ==
    /\ \E r \in {verificar_y_actualizar_estructura_bd(e_bd)} :
          /\ e_bd' = r.bd
          /\ e_ultimo' = [op |-> "migrar", aviso |-> r.aviso, ret |-> r.ret,
                           stats |-> <<>>]
    /\ UNCHANGED <<storeVars, cycleVars, valVars, scoreVars, cacheVars, multiVars,
                   concVars, estVars>>

\* stats = obtener_estadisticas_bd(db_name)
LeerEstadisticas ==
    /\ e_bd' = [e_bd EXCEPT !.existe = TRUE]
    /\ e_ultimo' = [op |-> "estadisticas", aviso |-> FALSE, ret |-> TRUE,
                    stats |-> obtener_estadisticas_bd(e_bd)]
    /\ UNCHANGED <<storeVars, cycleVars, valVars, scoreVars, cacheVars, multiVars,
                   concVars, estVars>>

InitEsquema ==
    StoreInit /\ CycleInit /\ ValInit0 /\ ScoreInit0 /\ CacheInit0 /\ MultiInit0
        /\ EsquemaInit /\ ciclos = <<>> /\ x_in = <<>> /\ x_out = <<>>

NextEsquema == CrearEsquema \/ MigrarEsquema \/ LeerEstadisticas

SpecEsquema == InitEsquema /\ [][NextEsquema]_vars


\* C22: verificar_y_actualizar_estructura_bd never loses rows: after it
\* has run, the catalog holds the same (ticker, name, sector) rows as
\* before, each with the default market when the table had no column
\* mercado; the fundamentals, price-bar and alert tables are unchanged; on
\* an already migrated store it changes nothing.
C22_MigracionSinPerdida ==
    [][MigrarEsquema =>
        /\ {<<r.ticker, r.empresa, r.sector>> : r \in e_bd'.empresas}
             = {<<r.ticker, r.empresa, r.sector>> : r \in e_bd.empresas}
        /\ Cardinality(e_bd'.empresas) = Cardinality(e_bd.empresas)
        /\ ("empresas" \in e_bd.tablas /\ ~e_bd.con_mercado) =>
              ( /\ e_bd'.con_mercado
                /\ "empresas" \in e_bd'.tablas
                /\ \A r \in e_bd'.empresas : r.mercado = "IBEX 35" )
        /\ e_bd'.datos_fundamentales = e_bd.datos_fundamentales
        /\ e_bd'.historico_precios = e_bd.historico_precios
        /\ e_bd'.alertas_validacion = e_bd.alertas_validacion
        /\ ("empresas" \in e_bd.tablas /\ e_bd.con_mercado) => e_bd' = e_bd]_vars

\* a store migrated with its two catalog rows and its other tables filled
C22_Witness ==
    /\ e_ultimo # <<>>
    /\ e_ultimo.op = "migrar" /\ e_ultimo.aviso /\ e_ultimo.ret
    /\ {<<r.ticker, r.mercado>> : r \in e_bd.empresas}
         = {<<Symbols[i], "IBEX 35">> : i \in 1..Total}
    /\ e_bd.datos_fundamentales # {}
    /\ e_bd.historico_precios # {}
    /\ e_bd.alertas_validacion # <<>>


\* C24: crear_base_datos is idempotent: on a store that has the four
\* tables a call changes nothing, on any store it leaves every existing row
\* of the catalog, fundamentals, price-bar and alert tables as it was, and
\* after it (in particular on an empty store) the four tables exist.
C24_CrearIdempotente ==
    [][CrearEsquema =>
        /\ TablasBd \subseteq e_bd'.tablas
        /\ e_bd'.empresas = e_bd.empresas
        /\ e_bd'.datos_fundamentales = e_bd.datos_fundamentales
        /\ e_bd'.historico_precios = e_bd.historico_precios
        /\ e_bd'.alertas_validacion = e_bd.alertas_validacion
        /\ TablasBd \subseteq e_bd.tablas => e_bd' = e_bd]_vars

\* crear_base_datos has run on a store whose four tables hold rows
C24_Witness ==
    /\ e_ultimo # <<>>
    /\ e_ultimo.op = "crear"
    /\ TablasBd \subseteq e_bd.tablas
    /\ Cardinality(e_bd.empresas) = Total
    /\ Cardinality(e_bd.datos_fundamentales) = 2
    /\ e_bd.historico_precios # {}
    /\ Len(e_bd.alertas_validacion) = 1


\* C25: obtener_estadisticas_bd never raises: on a store where not all four
\* tables exist (none, or only some) it returns the sentinel, tablas_existen
\* False with zero counts and no timestamp; on a store with the four tables
\* it returns the row counts of the catalog, price-bar and alert tables and
\* the most recent fundamentals timestamp.
C25_EstadisticasSinError ==
    (e_ultimo # <<>> /\ e_ultimo.op = "estadisticas") =>
        /\ e_ultimo.stats.excepcion = ""
        /\ IF TablasBd \subseteq e_bd.tablas
           THEN /\ e_ultimo.stats.tablas_existen
                /\ e_ultimo.stats.num_empresas = Cardinality(e_bd.empresas)
                /\ e_ultimo.stats.num_historicos = Cardinality(e_bd.historico_precios)
                /\ e_ultimo.stats.num_alertas = Len(e_bd.alertas_validacion)
                /\ \A r \in e_bd.datos_fundamentales :
                       r.fecha <= e_ultimo.stats.ultima_actualizacion
                /\ \/ e_bd.datos_fundamentales = {}
                            /\ e_ultimo.stats.ultima_actualizacion = 0
                   \/ \E r \in e_bd.datos_fundamentales :
                          r.fecha = e_ultimo.stats.ultima_actualizacion
           ELSE /\ ~e_ultimo.stats.tablas_existen
                /\ e_ultimo.stats.num_empresas = 0
                /\ e_ultimo.stats.num_historicos = 0
                /\ e_ultimo.stats.num_alertas = 0
                /\ e_ultimo.stats.ultima_actualizacion = 0

\* the statistics of a store that has a filled catalog but no alert table:
\* the last COUNT(*) raised and the except returned the sentinel
C25_Witness ==
    /\ e_ultimo # <<>>
    /\ e_ultimo.op = "estadisticas"
    /\ "empresas" \in e_bd.tablas
    /\ Cardinality(e_bd.empresas) = Total
    /\ "alertas_validacion" \notin e_bd.tablas
    /\ ~e_ultimo.stats.tablas_existen
    /\ e_ultimo.stats.num_empresas = 0


---------------------------------------------------------------------------
(* Two refresh cycles of the same market at the same time (two sessions of
   the dashboard press "Actualizar"): each store function opens its own
   connection and commits, so the cycles interleave between store operations;
   SQLite runs one statement at a time, and a statement that cannot get the
   lock within the timeout raises sqlite3.OperationalError *)

\* The two sessions that run a cycle
Ciclos == {1, 2}

\* What the provider answers in these cycles; the validator raises at most
\* one alert on them, so that each step below is one store operation
RespFalla == [falla |-> TRUE, info |-> <<>>, hist |-> HistVacio]
RespuestasConc ==
    {RespFalla,
     [falla |-> FALSE, info |-> InfoSano, hist |-> HistA],
     [falla |-> FALSE, info |-> InfoAnomalo, hist |-> HistB]}

AlmacenVacio ==
    [empresas |-> {}, datos_fundamentales |-> {}, seq_fund |-> 0,
     historico_precios |-> {}, alertas_validacion |-> <<>>]

\* The store an earlier, undisturbed cycle left: one row for every ticker
AlmacenPrevio ==
    obtener_datos_empresa(
        obtener_datos_empresa(AlmacenVacio, Symbols[1], Nombres[Symbols[1]], Mercado,
                              SECTORES_IBEX,
                              [falla |-> FALSE, info |-> InfoSano, hist |-> HistA],
                              "ninguno", 0),
        Symbols[2], Nombres[Symbols[2]], Mercado, SECTORES_IBEX,
        [falla |-> FALSE, info |-> InfoSano, hist |-> HistA], "ninguno", 0)

\* A cycle at the top of "for idx, (ticker, nombre) in enumerate(...)"
CicloInicial ==
    [pc |-> "running", idx |-> 0, paso |-> "obtener", resp |-> RespFalla,
     escritos |-> {}]

ConcInit ==
    /\ tablas_existen = TRUE
    /\ \E st \in {AlmacenVacio, AlmacenPrevio} :
         /\ empresas = st.empresas
         /\ datos_fundamentales = st.datos_fundamentales
         /\ seq_fund = st.seq_fund
         /\ historico_precios = st.historico_precios
         /\ alertas_validacion = st.alertas_validacion
         /\ ultimo_insertado =
                [t \in {Symbols[i] : i \in 1..Total} |->
                    SetMax({0} \cup {r.id : r \in {x \in st.datos_fundamentales :
                                                       x.ticker = t}})]
    /\ pc = "idle" /\ idx = 0 /\ progress = 0 /\ llamadas = 0
    /\ procesados = <<>> /\ fallos = {} /\ ultimo = SinOperacion
    /\ errores_bd = 0
    /\ ciclos = [c \in Ciclos |-> CicloInicial]

TickerDe(c) == Symbols[ciclos[c].idx + 1]

\* the dict obtener_datos_empresa builds from the validator's output
DatosDe(c) ==
    LET ticker == TickerDe(c)
        sector == DictGet(SECTORES_IBEX, ticker, "Otros")
        val == validar_y_corregir_datos(ciclos[c].resp.info, ciclos[c].resp.hist,
                                        sector)
    IN  val.datos
        @@ ("Ticker" :> Str(ticker)) @@ ("Empresa" :> Str(Nombres[ticker]))
        @@ ("Sector" :> Str(sector)) @@ ("Mercado" :> Str(Mercado))

\* "except Exception": the call returns the placeholder, the loop goes on
SaltaTicker(c) ==
    [ciclos[c] EXCEPT !.idx = @ + 1, !.paso = "obtener", !.resp = RespFalla]

\* sqlite3.OperationalError("database is locked") in a store write
Bloqueo(bloqueada) ==
    /\ bloqueada => errores_bd < MaxErroresBd
    /\ errores_bd' = IF bloqueada THEN errores_bd + 1 ELSE errores_bd

\* yf.Ticker, .info, .history and validar_y_corregir_datos with its
\* insertar_alerta
ObtenerC(c) ==
    /\ ciclos[c].pc = "running"
    /\ ciclos[c].paso = "obtener"
    /\ ciclos[c].idx < Total
    /\ \E resp \in RespuestasConc :
       \E val \in {IF resp.falla
                   THEN [raised |-> TRUE, datos |-> <<>>, alertas |-> <<>>]
                   ELSE validar_y_corregir_datos(
                            resp.info, resp.hist,
                            DictGet(SECTORES_IBEX, TickerDe(c), "Otros"))} :
       \E bloqueada \in (IF Len(val.alertas) > 0 THEN BOOLEAN ELSE {FALSE}) :
         /\ Len(val.alertas) <= 1
         /\ Bloqueo(bloqueada)
         /\ alertas_validacion' =
                IF bloqueada THEN alertas_validacion
                ELSE InsertarAlertas(alertas_validacion, TickerDe(c), val.alertas,
                                     Len(val.alertas))
         /\ ciclos' = [ciclos EXCEPT ![c] =
                          IF val.raised \/ bloqueada THEN SaltaTicker(c)
                          ELSE [@ EXCEPT !.paso = "empresa", !.resp = resp]]
    /\ UNCHANGED <<tablas_existen, empresas, datos_fundamentales, seq_fund,
                   historico_precios>>
    /\ UNCHANGED <<pc, idx, progress, llamadas, procesados, fallos, ultimo,
                   ultimo_insertado>>
    /\ UNCHANGED <<valVars, scoreVars, cacheVars, multiVars, esquemaVars, estVars>>

\* insertar_empresa(db_name, ticker, nombre, sector, mercado)
EmpresaC(c) ==
    /\ ciclos[c].pc = "running"
    /\ ciclos[c].paso = "empresa"
    /\ \E bloqueada \in BOOLEAN :
         /\ Bloqueo(bloqueada)
         /\ empresas' =
                IF bloqueada THEN empresas
                ELSE insertar_empresa(empresas, TickerDe(c), Nombres[TickerDe(c)],
                                      DictGet(SECTORES_IBEX, TickerDe(c), "Otros"),
                                      Mercado)
         /\ ciclos' = [ciclos EXCEPT ![c] =
                          IF bloqueada THEN SaltaTicker(c)
                          ELSE [@ EXCEPT !.paso = "fundamentales"]]
    /\ UNCHANGED <<tablas_existen, datos_fundamentales, seq_fund, historico_precios,
                   alertas_validacion>>
    /\ UNCHANGED <<pc, idx, progress, llamadas, procesados, fallos, ultimo,
                   ultimo_insertado>>
    /\ UNCHANGED <<valVars, scoreVars, cacheVars, multiVars, esquemaVars, estVars>>

\* insertar_datos_fundamentales(db_name, ticker, datos)
FundamentalesC(c) ==
    /\ ciclos[c].pc = "running"
    /\ ciclos[c].paso = "fundamentales"
    /\ \E bloqueada \in BOOLEAN :
       \E ins \in {insertar_datos_fundamentales(datos_fundamentales, seq_fund,
                                                TickerDe(c), DatosDe(c))} :
         /\ Bloqueo(bloqueada)
         /\ datos_fundamentales' = IF bloqueada THEN datos_fundamentales ELSE ins.tabla
         /\ seq_fund' = IF bloqueada THEN seq_fund ELSE ins.seq
         /\ ultimo_insertado' =
                IF bloqueada THEN ultimo_insertado
                ELSE [ultimo_insertado EXCEPT ![TickerDe(c)] = ins.seq]
         /\ ciclos' = [ciclos EXCEPT ![c] =
                          IF bloqueada THEN SaltaTicker(c)
                          ELSE [@ EXCEPT !.paso = "historico",
                                         !.escritos = @ \cup {TickerDe(c)}]]
    /\ UNCHANGED <<tablas_existen, empresas, historico_precios, alertas_validacion>>
    /\ UNCHANGED <<pc, idx, progress, llamadas, procesados, fallos, ultimo>>
    /\ UNCHANGED <<valVars, scoreVars, cacheVars, multiVars, esquemaVars, estVars>>

\* insertar_historico_precios(db_name, ticker, hist), then the next iteration
HistoricoC(c) ==
    /\ ciclos[c].pc = "running"
    /\ ciclos[c].paso = "historico"
    /\ \E bloqueada \in BOOLEAN :
         /\ Bloqueo(bloqueada)
         /\ historico_precios' =
                IF bloqueada THEN historico_precios
                ELSE insertar_historico_precios(historico_precios, TickerDe(c),
                                                ciclos[c].resp.hist)
         /\ ciclos' = [ciclos EXCEPT ![c] = SaltaTicker(c)]
    /\ UNCHANGED <<tablas_existen, empresas, datos_fundamentales, seq_fund,
                   alertas_validacion>>
    /\ UNCHANGED <<pc, idx, progress, llamadas, procesados, fallos, ultimo,
                   ultimo_insertado>>
    /\ UNCHANGED <<valVars, scoreVars, cacheVars, multiVars, esquemaVars, estVars>>

\* After the loop: limpiar_datos_antiguos(db_name), one DELETE statement; its
\* exception is caught nowhere
PurgarC(c) ==
    /\ ciclos[c].pc = "running"
    /\ ciclos[c].idx = Total
    /\ \E bloqueada \in BOOLEAN :
         /\ Bloqueo(bloqueada)
         /\ datos_fundamentales' =
                IF bloqueada THEN datos_fundamentales
                ELSE limpiar_datos_antiguos(datos_fundamentales).tabla
         /\ ciclos' = [ciclos EXCEPT ![c].pc =
                          IF bloqueada THEN "aborted" ELSE "done"]
    /\ UNCHANGED <<tablas_existen, empresas, seq_fund, historico_precios,
                   alertas_validacion>>
    /\ UNCHANGED <<pc, idx, progress, llamadas, procesados, fallos, ultimo,
                   ultimo_insertado>>
    /\ UNCHANGED <<valVars, scoreVars, cacheVars, multiVars, esquemaVars, estVars>>

InitConc ==
    /\ ConcInit /\ ValInit0 /\ ScoreInit0 /\ CacheInit0 /\ MultiInit0
    /\ e_bd = <<>> /\ e_ultimo = <<>> /\ x_in = <<>> /\ x_out = <<>>

NextConc ==
    \E c \in Ciclos :
        \/ ObtenerC(c)
        \/ EmpresaC(c)
        \/ FundamentalesC(c)
        \/ HistoricoC(c)
        \/ PurgarC(c)

SpecConc == InitConc /\ [][NextConc]_vars

\* C28: once both interleaved cycles have finished their purge, every ticker
\* either of them stored has exactly one Fundamentals row, the one appended
\* last for it; and no step of either cycle takes a ticker that had a row
\* to having none
C28_CiclosIntercalados ==
    /\ [](  (\A c \in Ciclos : ciclos[c].pc = "done")
         => \A t \in UNION {ciclos[c].escritos : c \in Ciclos} :
               /\ Cardinality(FilasDe(datos_fundamentales, t)) = 1
               /\ \A r \in FilasDe(datos_fundamentales, t) :
                     r.id = ultimo_insertado[t])
    /\ [][\A t \in TickersDe(datos_fundamentales) :
              FilasDe(datos_fundamentales', t) # {}]_vars

\* both cycles have purged and each stored both tickers on top of the two
\* rows of an earlier cycle; both appended their first ticker (ids 3, 4)
\* before either appended its second (ids 5, 6), so the cycles overlapped
C28_Witness ==
    /\ \A c \in Ciclos : ciclos[c].pc = "done"
    /\ \A c \in Ciclos : ciclos[c].escritos = {Symbols[1], Symbols[2]}
    /\ seq_fund = 6
    /\ ultimo_insertado[Symbols[1]] = 4
    /\ ultimo_insertado[Symbols[2]] = 6
    /\ Cardinality(datos_fundamentales) = 2


---------------------------------------------------------------------------
(* The expected-return estimator of StockAnalyzer (stock_analyzer.py).  It
   works column by column on a frame; every operation is element-wise, so
   the model follows one row.  A field of the row is Num(n), with n in
   units of 0.00001 (0.05 is 5000, a score of 10 is 1000000), or NaN / None when
   the provider did not give it. *)

Unidad == Scale * 100

\* Series.fillna(value): NaN and None are both missing
fillna(x, value) == IF x.k = "num" THEN x.v ELSE value

\* np.clip(a, a_min, a_max)
SinClip(a, a_min, a_max) == a
np_clip(a, a_min, a_max) ==
    IF a < a_min THEN a_min ELSE IF a > a_max THEN a_max ELSE a

\* Series.round(2): to the nearest hundredth, halves to the even one
Round2(x) ==
    LET u == Unidad \div 100
        q == x \div u
        r == x % u
    IN  IF 2 * r < u THEN q * u
        ELSE IF 2 * r > u THEN (q + 1) * u
        ELSE IF q % 2 = 0 THEN q * u ELSE (q + 1) * u

profitability_weights ==
    [dividend_yield |-> 25, dividend_growth |-> 15, price_momentum |-> 20,
     fundamental_strength |-> 25, valuation_attractiveness |-> 15]

calculate_dividend_score(df) ==
    LET dividend_yield == fillna(df.Dividend_Yield, 0)
        yield_score == np_clip(dividend_yield * 200, 0, 10 * Unidad)
        payout_ratio == fillna(df.Payout_Ratio, (7 * Unidad) \div 10)
        sustainability_score ==
            IF payout_ratio <= (6 * Unidad) \div 10 THEN 8 * Unidad
            ELSE IF payout_ratio <= (8 * Unidad) \div 10 THEN 6 * Unidad
            ELSE IF payout_ratio <= Unidad THEN 3 * Unidad
            ELSE 0
    IN  (yield_score * 6 + sustainability_score * 4) \div 10

calculate_dividend_growth_score(df) ==
    LET roe == fillna(df.ROE, 0)
        payout_ratio == fillna(df.Payout_Ratio, (6 * Unidad) \div 10)
        retention_ratio == np_clip(Unidad - payout_ratio, 0, Unidad)
        sustainable_growth == (roe * retention_ratio) \div Unidad
    IN  np_clip((sustainable_growth * 6667) \div 100, 0, 10 * Unidad)

calculate_price_momentum_score(df) ==
    LET price_change_1y == fillna(df.Price_Change_1Y, 0)
    IN  IF price_change_1y > 20 * Unidad THEN 9 * Unidad
        ELSE IF price_change_1y > 10 * Unidad THEN 8 * Unidad
        ELSE IF price_change_1y > 0 THEN 6 * Unidad
        ELSE IF price_change_1y > -10 * Unidad THEN 4 * Unidad
        ELSE IF price_change_1y > -20 * Unidad THEN 2 * Unidad
        ELSE 0

calculate_fundamental_strength_score(df) ==
    LET roe == fillna(df.ROE, 0)
        roa == fillna(df.ROA, 0)
        profit_margin == fillna(df.Profit_Margin, 0)
        roe_score == IF roe > (20 * Unidad) \div 100 THEN 4
                     ELSE IF roe > (15 * Unidad) \div 100 THEN 3
                     ELSE IF roe > (10 * Unidad) \div 100 THEN 2
                     ELSE IF roe > (5 * Unidad) \div 100 THEN 1 ELSE 0
        roa_score == IF roa > (10 * Unidad) \div 100 THEN 3
                     ELSE IF roa > (5 * Unidad) \div 100 THEN 2
                     ELSE IF roa > (2 * Unidad) \div 100 THEN 1 ELSE 0
        margin_score == IF profit_margin > (20 * Unidad) \div 100 THEN 3
                        ELSE IF profit_margin > (10 * Unidad) \div 100 THEN 2
                        ELSE IF profit_margin > (5 * Unidad) \div 100 THEN 1 ELSE 0
    IN  (roe_score + roa_score + margin_score) * Unidad

calculate_valuation_attractiveness_score(df) ==
    LET pe_ratio == fillna(df.PE_Ratio, 50 * Unidad)
        pb_ratio == fillna(df.PB_Ratio, 5 * Unidad)
        pe_score == IF pe_ratio < 10 * Unidad THEN 6
                    ELSE IF pe_ratio < 15 * Unidad THEN 5
                    ELSE IF pe_ratio < 20 * Unidad THEN 4
                    ELSE IF pe_ratio < 25 * Unidad THEN 3
                    ELSE IF pe_ratio < 30 * Unidad THEN 2 ELSE 1
        pb_score == IF pb_ratio < Unidad THEN 4
                    ELSE IF pb_ratio < (15 * Unidad) \div 10 THEN 3
                    ELSE IF pb_ratio < 2 * Unidad THEN 2
                    ELSE IF pb_ratio < 3 * Unidad THEN 1 ELSE 0
    IN  (pe_score + pb_score) * Unidad

\* The columns calculate_total_expected_return adds, and the three series
\* they are rounded from
calculate_total_expected_return(df) ==
    LET dividend_score == calculate_dividend_score(df)
        dividend_growth_score == calculate_dividend_growth_score(df)
        momentum_score == calculate_price_momentum_score(df)
        fundamental_score == calculate_fundamental_strength_score(df)
        valuation_score == calculate_valuation_attractiveness_score(df)
        total_score ==
            (  dividend_score * profitability_weights.dividend_yield
             + dividend_growth_score * profitability_weights.dividend_growth
             + momentum_score * profitability_weights.price_momentum
             + fundamental_score * profitability_weights.fundamental_strength
             + valuation_score * profitability_weights.valuation_attractiveness)
            \div 100
        current_dividend_yield == fillna(df.Dividend_Yield, 0)
        score_factor == np_clip(total_score \div 10, 0, Unidad)
        potential_appreciation == (score_factor * 15) \div 100
        total_expected_return == current_dividend_yield + potential_appreciation
        dividend_growth_factor ==
            np_clip(dividend_growth_score \div 200, 0, (3 * Unidad) \div 100)
        next_year_dividend_yield ==
            (current_dividend_yield * (Unidad + dividend_growth_factor)) \div Unidad
    IN  [Dividend_Score |-> Round2(dividend_score),
         Dividend_Growth_Score |-> Round2(dividend_growth_score),
         Momentum_Score |-> Round2(momentum_score),
         Fundamental_Score |-> Round2(fundamental_score),
         Valuation_Score |-> Round2(valuation_score),
         Total_Score |-> Round2(total_score),
         Expected_Total_Return |-> Round2(total_expected_return * 100),
         Expected_Dividend_Yield |-> Round2(next_year_dividend_yield * 100),
         Expected_Price_Appreciation |-> Round2(potential_appreciation * 100),
         total_score |-> total_score,
         potential_appreciation |-> potential_appreciation,
         total_expected_return |-> total_expected_return]

\* Rows of the frame get_stock_data builds: info.get(..., None) per field
Faltante == {NaN, None}
FilasEstimador ==
    [Dividend_Yield : Faltante \cup {Num(-1000), Num(0), Num(4), Num(2346),
                                    Num(5000), Num(12000)},
     Payout_Ratio : {NaN, Num(0), Num(50000), Num(70000), Num(90000), Num(120000)},
     ROE : {NaN, Num(-10000), Num(8000), Num(21000)},
     ROA : {NaN, Num(3000), Num(12000)},
     Profit_Margin : {NaN, Num(7000), Num(25000)},
     PE_Ratio : {NaN, Num(8 * Unidad), Num(22 * Unidad)},
     PB_Ratio : {NaN, Num(80000), Num(4 * Unidad)},
     Price_Change_1Y : {NaN, Num(-25 * Unidad), Num(30 * Unidad)}]

EstInit == x_in \in FilasEstimador /\ x_out = <<>>

\* all_stocks_analyzed = analyzer.calculate_total_expected_return(all_stocks)
CalcularRetorno ==
    /\ x_out = <<>>
    /\ x_out' = calculate_total_expected_return(x_in)
    /\ UNCHANGED <<x_in, storeVars, cycleVars, valVars, scoreVars, cacheVars,
                   multiVars, esquemaVars, concVars>>

InitEst ==
    /\ StoreInit /\ CycleInit /\ ValInit0 /\ ScoreInit0 /\ CacheInit0 /\ MultiInit0
    /\ e_bd = <<>> /\ e_ultimo = <<>> /\ ciclos = <<>>
    /\ EstInit

NextEst == CalcularRetorno

SpecEst == InitEst /\ [][NextEst]_vars

\* C30: for every row, whichever fields are missing, Total_Score is within
\* [0, 10], Expected_Price_Appreciation is within [0, 15] percent, and
\* Expected_Total_Return is the dividend yield (0 when missing) plus the
\* appreciation, in percent, to the two decimals the columns are rounded to
C30_RetornoEsperado ==
    x_out # <<>> =>
        LET dy == fillna(x_in.Dividend_Yield, 0)
            centesima == Unidad \div 100
            dif == x_out.Expected_Total_Return
                   - (dy * 100 + x_out.Expected_Price_Appreciation)
        IN  /\ 0 <= x_out.Total_Score /\ x_out.Total_Score <= 10 * Unidad
            /\ 0 <= x_out.total_score /\ x_out.total_score <= 10 * Unidad
            /\ 0 <= x_out.Expected_Price_Appreciation
            /\ x_out.Expected_Price_Appreciation <= 15 * Unidad
            /\ x_out.total_expected_return = dy + x_out.potential_appreciation
            /\ x_out.Expected_Total_Return
                   = Round2((dy + x_out.potential_appreciation) * 100)
            /\ -centesima <= dif /\ dif <= centesima

\* a row with the dividend yield and the payout ratio missing has been
\* estimated: its total return is its appreciation alone
C30_Witness ==
    /\ x_out # <<>>
    /\ x_in.Dividend_Yield = None
    /\ x_in.Payout_Ratio = NaN
    /\ x_in.ROE = NaN
    /\ x_out.Expected_Total_Return = x_out.Expected_Price_Appreciation
    /\ x_out.Expected_Price_Appreciation > 0

=============================================================================
